---- MODULE Spec2Model ----
(***************************************************************************)
(* The policy graph and conflict-resolution engine of factory_3.py:        *)
(* PolicyClause, PolicyGraph.add_clause, get_related_policies,             *)
(* resolve_conflicts, _check_conditions and generate_policy_text.          *)
(*                                                                         *)
(* A Python list is a sequence, a dict a function whose DOMAIN is its key  *)
(* set, and a method's `self` is the record Self of the two dicts of the   *)
(* PolicyGraph object.                                                     *)
(***************************************************************************)
EXTENDS Integers, Sequences, FiniteSets, TLC

VARIABLES
    clauses,            \* PolicyGraph.clauses: clause_id -> PolicyClause
    interaction_graph,  \* PolicyGraph.interaction_graph: clause_id -> list of ids
    op,                 \* the method called last ("init" before any call)
    args,               \* the arguments of that call
    result,             \* the list (or bool, in a one-element list) it returned
    raised,             \* the exception it raised, "none" if it returned
    workers,            \* concurrent callers: their calls, positions, locals
    pipeline            \* one iteration of main's ticket loop: its position,
                        \* template, order, scenario and ticket

vars == <<clauses, interaction_graph, op, args, result, raised, workers,
          pipeline>>

----------------------------------------------------------------------------
(* Bounds of the model.                                                    *)

MaxHops == 3        \* max_hops arguments range over 0..MaxHops
MaxEdges == 5       \* most relation entries drawn for a whole ruleset
MaxCand == 3        \* longest candidate list passed to resolve_conflicts
MaxPrec == 2        \* precedences drawn for general rulesets are 1..MaxPrec
MaxConds == 2       \* longest condition list drawn for a clause

----------------------------------------------------------------------------
(* Python helpers.                                                         *)

\* x in s, for a list s
InList(x, s) == \E i \in 1..Len(s) : s[i] = x

\* the set of elements of a list
Elems(s) == {s[i] : i \in 1..Len(s)}

\* s.remove(x): drops the first occurrence of x
RECURSIVE ListRemove(_, _)
ListRemove(s, x) ==
    IF s = <<>> THEN <<>>
    ELSE IF Head(s) = x THEN Tail(s)
    ELSE <<Head(s)>> \o ListRemove(Tail(s), x)

\* context.get(key, default)
DictGet(context, key, default) ==
    IF key \in DOMAIN context THEN context[key] ELSE default

\* the empty dict
EmptyDict == [k \in {} |-> 0]

\* months_since_purchase is a float in the code: 0.33, a whole number of
\* months, or days / 30.44. Its values are counted in 1/76100 month, the
\* unit in which all of these are whole numbers.
MonthUnit == 76100

\* n months
Months(n) == n * MonthUnit

\* days / 30.44
DaysToMonths(days) == days * ((100 * MonthUnit) \div 3044)

\* 0.33, the default of build_order_context
DefaultMonths == (33 * MonthUnit) \div 100

----------------------------------------------------------------------------
(* PolicyClause and PolicyGraph.                                           *)

\* PolicyClause(clause_id, title, rule) with the dataclass defaults
PolicyClause(clause_id, title, rule) ==
    [clause_id |-> clause_id, title |-> title, rule |-> rule,
     conditions |-> <<>>, interacts_with |-> <<>>, modifies |-> <<>>,
     modified_by |-> <<>>, overrides |-> <<>>, overridden_by |-> <<>>,
     requires |-> <<>>, precedence |-> 5, category |-> ""]

\* PolicyGraph(): both dicts empty
NewPolicyGraph == [clauses |-> EmptyDict, interaction_graph |-> EmptyDict]

\* a list without its repeats, first occurrences kept
RECURSIVE Deduplicated(_)
Deduplicated(s) ==
    IF s = <<>> THEN <<>>
    ELSE LET front == Deduplicated(SubSeq(s, 1, Len(s) - 1))
         IN  IF InList(s[Len(s)], front) THEN front ELSE Append(front, s[Len(s)])

\* AllInteractions as a set of ids: the six lists merged, each id kept once
AllInteractions_Deduplicated(clause) ==
    Deduplicated(clause.interacts_with \o clause.modifies \o clause.modified_by \o
                 clause.overrides \o clause.overridden_by \o clause.requires)

\* the list add_clause stores in interaction_graph
AllInteractions(clause) ==
    clause.interacts_with \o clause.modifies \o clause.modified_by \o
    clause.overrides \o clause.overridden_by \o clause.requires

\* add_clause refusing a clause whose relation lists name an id that is not
\* stored yet, as the error-handling design words the build
add_clause_Validating(self, clause) ==
    IF \E i \in 1..Len(AllInteractions(clause)) :
           AllInteractions(clause)[i] \notin DOMAIN self.clauses
    THEN self
    ELSE [clauses |-> (clause.clause_id :> clause) @@ self.clauses,
          interaction_graph |->
              (clause.clause_id :> AllInteractions(clause)) @@ self.interaction_graph]

\* add_clause extending the entry an id already has
\* (setdefault(...).extend(...)) where the code assigns a new list
add_clause_Extending(self, clause) ==
    LET old == IF clause.clause_id \in DOMAIN self.interaction_graph
               THEN self.interaction_graph[clause.clause_id] ELSE <<>>
    IN  [clauses |-> (clause.clause_id :> clause) @@ self.clauses,
         interaction_graph |->
            (clause.clause_id :> old \o AllInteractions(clause))
                @@ self.interaction_graph]

\* add_clause as a function of the graph object
add_clause(self, clause) ==
    [clauses |-> (clause.clause_id :> clause) @@ self.clauses,
     interaction_graph |->
        (clause.clause_id :> AllInteractions(clause)) @@ self.interaction_graph]

\* a ruleset is built by add_clause calls in list order
RECURSIVE BuildGraph(_, _)
BuildGraph(self, clause_list) ==
    IF clause_list = <<>> THEN self
    ELSE BuildGraph(add_clause(self, Head(clause_list)), Tail(clause_list))

\* the PolicyGraph object of the current state
Self == [clauses |-> clauses, interaction_graph |-> interaction_graph]

----------------------------------------------------------------------------
(* _check_conditions.                                                      *)

\* ConditionFails with the return window closed at 30 days (>= for >)
ConditionFails_WindowOffByOne(condition, context) ==
    \/ condition = "receipt_required"
         /\ ~DictGet(context, "has_receipt", TRUE)
    \/ condition = "within_return_window"
         /\ DictGet(context, "days_since_purchase", 0) >= 30
    \/ condition = "within_price_match_window"
         /\ DictGet(context, "days_since_purchase", 0) > 14
    \/ condition = "order_not_shipped"
         /\ DictGet(context, "order_status", "None") \in {"shipped", "delivered"}
    \/ condition = "item_over_500"
         /\ DictGet(context, "item_value", 0) <= 500
    \/ condition = "warranty_period"
         /\ DictGet(context, "months_since_purchase", 0) > Months(12)

\* ConditionFails with a closing `else: return False`: a closed vocabulary
ConditionFails_ClosedVocabulary(condition, context) ==
    \/ condition = "receipt_required"
         /\ ~DictGet(context, "has_receipt", TRUE)
    \/ condition = "within_return_window"
         /\ DictGet(context, "days_since_purchase", 0) > 30
    \/ condition = "within_price_match_window"
         /\ DictGet(context, "days_since_purchase", 0) > 14
    \/ condition = "order_not_shipped"
         /\ DictGet(context, "order_status", "None") \in {"shipped", "delivered"}
    \/ condition = "item_over_500"
         /\ DictGet(context, "item_value", 0) <= 500
    \/ condition = "warranty_period"
         /\ DictGet(context, "months_since_purchase", 0) > Months(12)
    \/ condition \notin {"receipt_required", "within_return_window",
                         "within_price_match_window", "order_not_shipped",
                         "item_over_500", "warranty_period"}

\* one iteration of the loop: TRUE when the if/elif chain returns False
ConditionFails(condition, context) ==
    \/ condition = "receipt_required"
         /\ ~DictGet(context, "has_receipt", TRUE)
    \/ condition = "within_return_window"
         /\ DictGet(context, "days_since_purchase", 0) > 30
    \/ condition = "within_price_match_window"
         /\ DictGet(context, "days_since_purchase", 0) > 14
    \/ condition = "order_not_shipped"
         /\ DictGet(context, "order_status", "None") \in {"shipped", "delivered"}
    \/ condition = "item_over_500"
         /\ DictGet(context, "item_value", 0) <= 500
    \/ condition = "warranty_period"
         /\ DictGet(context, "months_since_purchase", 0) > Months(12)

\* the loop returns False at the first failing condition, True at its end
RECURSIVE CheckConditionsLoop(_, _)
CheckConditionsLoop(conditions, context) ==
    IF conditions = <<>> THEN TRUE
    ELSE IF ConditionFails(Head(conditions), context) THEN FALSE
    ELSE CheckConditionsLoop(Tail(conditions), context)

check_conditions(clause, context) ==
    CheckConditionsLoop(clause.conditions, context)

----------------------------------------------------------------------------
(* What a call gives back: a returned value, or a raised exception.        *)

Return(value) == [raised |-> "none", value |-> value]
Raise(exception) == [raised |-> exception, value |-> <<>>]

----------------------------------------------------------------------------
(* get_related_policies.                                                   *)

\* SkipVisit with the hop limit exclusive (>= for >)
SkipVisit_ExclusiveLimit(current_id, hops, visited, max_hops) ==
    current_id \in visited \/ hops >= max_hops

\* SkipVisit without the visited test: only the hop limit stops a visit
SkipVisit_HopLimitOnly(current_id, hops, visited, max_hops) ==
    hops > max_hops

\* ConnectedPairs passing on the hop count it was given (hops for hops + 1)
RECURSIVE ConnectedPairs_SameHop(_, _, _)
ConnectedPairs_SameHop(connected, visited, hops) ==
    IF connected = <<>> THEN <<>>
    ELSE IF Head(connected) \notin visited
         THEN <<<<Head(connected), hops>>>> \o
              ConnectedPairs_SameHop(Tail(connected), visited, hops)
         ELSE ConnectedPairs_SameHop(Tail(connected), visited, hops)

\* the `continue` test at the head of the while loop
SkipVisit(current_id, hops, visited, max_hops) ==
    current_id \in visited \/ hops > max_hops

\* related.append(current_id) unless it is the starting clause
AppendRelated(related, current_id, clause_id) ==
    IF current_id # clause_id THEN Append(related, current_id) ELSE related

\* the (connected_id, hops + 1) pairs the for loop appends to to_visit
RECURSIVE ConnectedPairs(_, _, _)
ConnectedPairs(connected, visited, hops) ==
    IF connected = <<>> THEN <<>>
    ELSE IF Head(connected) \notin visited
         THEN <<<<Head(connected), hops + 1>>>> \o
              ConnectedPairs(Tail(connected), visited, hops)
         ELSE ConnectedPairs(Tail(connected), visited, hops)

\* RelatedLoop with to_visit used as a stack (pop() for pop(0)): depth first
RECURSIVE RelatedLoop_DepthFirst(_, _, _, _, _, _)
RelatedLoop_DepthFirst(self, clause_id, max_hops, to_visit, visited, related) ==
    IF to_visit = <<>> THEN related
    ELSE LET current_id == to_visit[Len(to_visit)][1]
             hops == to_visit[Len(to_visit)][2]
             rest == SubSeq(to_visit, 1, Len(to_visit) - 1)
         IN  IF SkipVisit(current_id, hops, visited, max_hops)
             THEN RelatedLoop_DepthFirst(self, clause_id, max_hops, rest,
                                         visited, related)
             ELSE LET visited2 == visited \cup {current_id}
                      related2 == AppendRelated(related, current_id, clause_id)
                      added ==
                          IF current_id \in DOMAIN self.interaction_graph
                          THEN ConnectedPairs(self.interaction_graph[current_id],
                                              visited2, hops)
                          ELSE <<>>
                  IN  RelatedLoop_DepthFirst(self, clause_id, max_hops,
                                             rest \o added, visited2, related2)

\* the while loop over to_visit, from the given loop state to the returned list
RECURSIVE RelatedLoop(_, _, _, _, _, _)
RelatedLoop(self, clause_id, max_hops, to_visit, visited, related) ==
    IF to_visit = <<>> THEN related
    ELSE LET current_id == Head(to_visit)[1]
             hops == Head(to_visit)[2]
             rest == Tail(to_visit)        \* to_visit.pop(0)
         IN  IF SkipVisit(current_id, hops, visited, max_hops)
             THEN RelatedLoop(self, clause_id, max_hops, rest, visited, related)
             ELSE LET visited2 == visited \cup {current_id}
                      related2 == AppendRelated(related, current_id, clause_id)
                      added ==
                          IF current_id \in DOMAIN self.interaction_graph
                          THEN ConnectedPairs(self.interaction_graph[current_id],
                                              visited2, hops)
                          ELSE <<>>
                  IN  RelatedLoop(self, clause_id, max_hops, rest \o added,
                                  visited2, related2)

\* the guard of get_related_policies as the error-handling design words it
get_related_policies_NotFound(self, clause_id, max_hops) ==
    IF clause_id \notin DOMAIN self.clauses THEN Raise("NotFound")
    ELSE Return(RelatedLoop(self, clause_id, max_hops,
                            <<<<clause_id, 0>>>>, {}, <<>>))

\* get_related_policies failing when the traversal visited an id that is not
\* stored, as the error-handling design words it
get_related_policies_StrictTraversal(self, clause_id, max_hops) ==
    IF clause_id \notin DOMAIN self.clauses THEN Return(<<>>)
    ELSE LET related == RelatedLoop(self, clause_id, max_hops,
                                    <<<<clause_id, 0>>>>, {}, <<>>)
         IN  IF \E i \in 1..Len(related) : related[i] \notin DOMAIN self.clauses
             THEN Raise("NotFound")
             ELSE Return(related)

get_related_policies(self, clause_id, max_hops) ==
    IF clause_id \notin DOMAIN self.clauses THEN Return(<<>>)
    ELSE Return(RelatedLoop(self, clause_id, max_hops,
                            <<<<clause_id, 0>>>>, {}, <<>>))

----------------------------------------------------------------------------
(* resolve_conflicts.                                                      *)

\* InsertSorted for a sort with reverse=True: larger precedence numbers first
RECURSIVE InsertSorted_Descending(_, _, _)
InsertSorted_Descending(self, sorted, cid) ==
    IF sorted = <<>> THEN <<cid>>
    ELSE IF self.clauses[Head(sorted)].precedence >= self.clauses[cid].precedence
         THEN <<Head(sorted)>> \o InsertSorted_Descending(self, Tail(sorted), cid)
         ELSE <<cid>> \o sorted

\* InsertSorted for a sort that is not stable: cid goes before the elements
\* whose key equals its own
RECURSIVE InsertSorted_Unstable(_, _, _)
InsertSorted_Unstable(self, sorted, cid) ==
    IF sorted = <<>> THEN <<cid>>
    ELSE IF self.clauses[Head(sorted)].precedence < self.clauses[cid].precedence
         THEN <<Head(sorted)>> \o InsertSorted_Unstable(self, Tail(sorted), cid)
         ELSE <<cid>> \o sorted

\* sorted(clause_ids, key=precedence): a stable insertion of cid into a
\* list already sorted, after every element whose key is not larger
RECURSIVE InsertSorted(_, _, _)
InsertSorted(self, sorted, cid) ==
    IF sorted = <<>> THEN <<cid>>
    ELSE IF self.clauses[Head(sorted)].precedence <= self.clauses[cid].precedence
         THEN <<Head(sorted)>> \o InsertSorted(self, Tail(sorted), cid)
         ELSE <<cid>> \o sorted

RECURSIVE SortLoop(_, _, _)
SortLoop(self, clause_ids, sorted) ==
    IF clause_ids = <<>> THEN sorted
    ELSE SortLoop(self, Tail(clause_ids), InsertSorted(self, sorted, Head(clause_ids)))

\* SortedClauses without the sort: the candidates in the order passed
SortedClauses_AsPassed(self, clause_ids) == clause_ids

SortedClauses(self, clause_ids) == SortLoop(self, clause_ids, <<>>)

\* PruneLoop with a break after the first active_clauses.remove
RECURSIVE PruneFirst(_, _, _)
PruneFirst(copy, active_clauses, clause) ==
    IF copy = <<>> THEN active_clauses
    ELSE IF InList(Head(copy), clause.overrides)
         THEN ListRemove(active_clauses, Head(copy))
         ELSE PruneFirst(Tail(copy), active_clauses, clause)

\* for active_id in active_clauses[:]: remove it when clause.overrides names it
RECURSIVE PruneLoop(_, _, _)
PruneLoop(copy, active_clauses, clause) ==
    IF copy = <<>> THEN active_clauses
    ELSE IF InList(Head(copy), clause.overrides)
         THEN PruneLoop(Tail(copy), ListRemove(active_clauses, Head(copy)), clause)
         ELSE PruneLoop(Tail(copy), active_clauses, clause)

\* PruneActive without the [:] copy: the for loop walks the list it shrinks,
\* so the element after a removed one is passed over
RECURSIVE PruneInPlace(_, _, _)
PruneInPlace(i, active_clauses, clause) ==
    IF i > Len(active_clauses) THEN active_clauses
    ELSE IF InList(active_clauses[i], clause.overrides)
         THEN PruneInPlace(i + 1, ListRemove(active_clauses, active_clauses[i]),
                           clause)
         ELSE PruneInPlace(i + 1, active_clauses, clause)

PruneActive_NoCopy(active_clauses, clause) ==
    PruneInPlace(1, active_clauses, clause)

PruneActive(active_clauses, clause) ==
    PruneLoop(active_clauses, active_clauses, clause)

\* IsOverridden consulting the clause appended last only (active_clauses[-1])
IsOverridden_LastActive(self, clause_id, active_clauses) ==
    /\ active_clauses # <<>>
    /\ InList(clause_id,
              self.clauses[active_clauses[Len(active_clauses)]].overrides)

\* IsOverridden with the relation read backwards: active_id in clause.overrides
IsOverridden_Reversed(self, clause_id, active_clauses) ==
    \E i \in 1..Len(active_clauses) :
        InList(active_clauses[i], self.clauses[clause_id].overrides)

\* IsOverridden reading the clause's own overridden_by list as well
IsOverridden_WithOverriddenBy(self, clause_id, active_clauses) ==
    \E i \in 1..Len(active_clauses) :
        \/ InList(clause_id, self.clauses[active_clauses[i]].overrides)
        \/ InList(active_clauses[i], self.clauses[clause_id].overridden_by)

\* is_overridden = any(clause_id in self.clauses[active_id].overrides ...)
IsOverridden(self, clause_id, active_clauses) ==
    \E i \in 1..Len(active_clauses) :
        InList(clause_id, self.clauses[active_clauses[i]].overrides)

\* ResolveStep without the _check_conditions test
ResolveStep_NoConditions(self, clause_id, context, active_clauses) ==
    LET clause == self.clauses[clause_id]
        pruned == PruneActive(active_clauses, clause)
    IN  IF ~IsOverridden(self, clause_id, pruned)
        THEN Append(pruned, clause_id)
        ELSE pruned

\* ResolveStep with `or` for `and`: a candidate is appended when no active
\* clause overrides it or when its conditions hold
ResolveStep_EitherTest(self, clause_id, context, active_clauses) ==
    LET clause == self.clauses[clause_id]
        pruned == PruneActive(active_clauses, clause)
    IN  IF ~IsOverridden(self, clause_id, pruned)
           \/ check_conditions(clause, context)
        THEN Append(pruned, clause_id)
        ELSE pruned

\* the body of the for loop for one candidate
ResolveStep(self, clause_id, context, active_clauses) ==
    LET clause == self.clauses[clause_id]
        pruned == PruneActive(active_clauses, clause)
    IN  IF ~IsOverridden(self, clause_id, pruned)
           /\ check_conditions(clause, context)
        THEN Append(pruned, clause_id)
        ELSE pruned

RECURSIVE ResolveLoop(_, _, _, _)
ResolveLoop(self, sorted_clauses, context, active_clauses) ==
    IF sorted_clauses = <<>> THEN active_clauses
    ELSE ResolveLoop(self, Tail(sorted_clauses), context,
                     ResolveStep(self, Head(sorted_clauses), context, active_clauses))

\* ActiveInit for a list that outlives the call (a mutable default argument):
\* the next call starts from what the last one returned
ActiveInit_Shared == IF op = "resolve" THEN result ELSE <<>>

\* active_clauses = []: the list every call starts from
ActiveInit == <<>>

\* the (removed id, removing candidate) pairs of the active_clauses.remove
\* calls one candidate makes
Removals(active_clauses, clause) ==
    {<<active_clauses[i], clause.clause_id>> :
        i \in {j \in 1..Len(active_clauses) :
                  InList(active_clauses[j], clause.overrides)}}

\* the active_clauses.remove calls of the whole for loop
RECURSIVE RemovalLoop(_, _, _, _)
RemovalLoop(self, sorted_clauses, context, active_clauses) ==
    IF sorted_clauses = <<>> THEN {}
    ELSE Removals(active_clauses, self.clauses[Head(sorted_clauses)])
         \cup RemovalLoop(self, Tail(sorted_clauses), context,
                          ResolveStep(self, Head(sorted_clauses), context,
                                      active_clauses))

\* the active_clauses.remove calls of a resolve_conflicts call
ResolveRemovals(self, clause_ids, context) ==
    IF clause_ids = <<>> THEN {}
    ELSE IF \E i \in 1..Len(clause_ids) : clause_ids[i] \notin DOMAIN self.clauses
         THEN {}
    ELSE RemovalLoop(self, SortedClauses(self, clause_ids), context, ActiveInit)

\* resolve_conflicts with the context indexed (context[key]) where the code
\* calls context.get: a condition on a field the context lacks is a KeyError
resolve_conflicts_ContextIndexing(self, clause_ids, context) ==
    IF clause_ids = <<>> THEN Return(<<>>)
    ELSE IF \E i \in 1..Len(clause_ids) : clause_ids[i] \notin DOMAIN self.clauses
         THEN Raise("KeyError")
    ELSE IF /\ "days_since_purchase" \notin DOMAIN context
            /\ \E i \in 1..Len(clause_ids) :
                   InList("within_return_window",
                          self.clauses[clause_ids[i]].conditions)
         THEN Raise("KeyError")
    ELSE Return(ResolveLoop(self, SortedClauses(self, clause_ids), context,
                            ActiveInit))

resolve_conflicts(self, clause_ids, context) ==
    IF clause_ids = <<>> THEN Return(<<>>)
    ELSE IF \E i \in 1..Len(clause_ids) : clause_ids[i] \notin DOMAIN self.clauses
         THEN Raise("KeyError")      \* self.clauses[cid] in the sort key
    ELSE Return(ResolveLoop(self, SortedClauses(self, clause_ids), context,
                            ActiveInit))

----------------------------------------------------------------------------
(* generate_policy_text.  The text is kept as the list of lines that       *)
(* "\n".join(policy_text) joins.                                           *)

\* the ids of the model in ascending string order; every ruleset rendered
\* was built in this order, so it is also the order of self.clauses
IdsAscending == <<"P1", "P2", "P3", "P4", "R1", "R2", "R3",
                  "RETURN-001", "RETURN-002", "RETURN-004">>

\* self.clauses.values(), as ids
ClauseKeys(self) ==
    LET Stored(id) == id \in DOMAIN self.clauses
    IN  SelectSeq(IdsAscending, Stored)

\* the keys of the categories dict, in order of first encounter
RECURSIVE CategoryKeys(_, _, _)
CategoryKeys(self, keys, categories) ==
    IF keys = <<>> THEN categories
    ELSE LET category == self.clauses[Head(keys)].category
         IN  CategoryKeys(self, Tail(keys),
                          IF InList(category, categories) THEN categories
                          ELSE Append(categories, category))

\* sorted(categories[category], key=clause_id), as ids
SortedCategory(self, category) ==
    LET Filed(id) == self.clauses[id].category = category
    IN  SelectSeq(ClauseKeys(self), Filed)

\* "=" * n
RECURSIVE Underline(_)
Underline(n) == IF n = 0 THEN "" ELSE "=" \o Underline(n - 1)

\* ', '.join(conditions)
RECURSIVE JoinConditions(_)
JoinConditions(conditions) ==
    IF conditions = <<>> THEN ""
    ELSE IF Len(conditions) = 1 THEN Head(conditions)
    ELSE Head(conditions) \o ", " \o JoinConditions(Tail(conditions))

\* the lines appended for one clause
ClauseLines(clause) ==
    <<"\n[" \o clause.clause_id \o "] " \o clause.title,
      "Rule: " \o clause.rule>>
    \o (IF clause.conditions # <<>>
        THEN <<"Conditions: " \o JoinConditions(clause.conditions)>>
        ELSE <<>>)

RECURSIVE CategoryClauseLines(_, _)
CategoryClauseLines(self, ids) ==
    IF ids = <<>> THEN <<>>
    ELSE ClauseLines(self.clauses[Head(ids)]) \o CategoryClauseLines(self, Tail(ids))

\* the for loop over categories.items()
RECURSIVE CategoryLines(_, _)
CategoryLines(self, categories) ==
    IF categories = <<>> THEN <<>>
    ELSE LET category == Head(categories)
         IN  <<"\n" \o category, Underline(Len(category))>>
             \o CategoryClauseLines(self, SortedCategory(self, category))
             \o CategoryLines(self, Tail(categories))

generate_policy_text(self) ==
    Return(CategoryLines(self, CategoryKeys(self, ClauseKeys(self), <<>>)))

----------------------------------------------------------------------------
(* The calls, as actions on the graph object.                              *)

\* no ticket in the making
NoPipeline == [pc |-> "none"]

\* no concurrent callers
NoWorkers == [call |-> <<>>, pc |-> <<>>, frame |-> <<>>, returned |-> <<>>]

\* max_hops=3, the value save_policy_graph passes
SummaryMaxHops == 3

NoArgs == [clause_id |-> "", max_hops |-> 0, clause_ids |-> <<>>,
           context |-> EmptyDict, clause |-> PolicyClause("", "", "")]

\* graph.add_clause(clause), which returns None
AddClause(clause) ==
    LET graph == add_clause(Self, clause)
    IN  /\ op' = "add_clause"
        /\ args' = [NoArgs EXCEPT !.clause = clause]
        /\ clauses' = graph.clauses
        /\ interaction_graph' = graph.interaction_graph
        /\ result' = <<>>
        /\ raised' = "none"
        /\ UNCHANGED <<workers, pipeline>>

\* graph.get_related_policies(clause_id, max_hops)
Related(clause_id, max_hops) ==
    LET r == get_related_policies(Self, clause_id, max_hops)
    IN  /\ op' = "related"
        /\ args' = [args EXCEPT !.clause_id = clause_id, !.max_hops = max_hops]
        /\ result' = r.value
        /\ raised' = r.raised
        /\ UNCHANGED <<clauses, interaction_graph, workers, pipeline>>

\* ArgumentAfterSort for clause_ids.sort(key=...), which orders the caller's
\* list in place
ArgumentAfterSort_InPlace(self, clause_ids) ==
    IF \A i \in 1..Len(clause_ids) : clause_ids[i] \in DOMAIN self.clauses
    THEN SortedClauses(self, clause_ids)
    ELSE clause_ids

\* the caller's list after the call: sorted() builds a new list and the loop
\* only appends to and removes from active_clauses, so the argument is as
\* it was passed
ArgumentAfterSort(self, clause_ids) == clause_ids

\* graph.resolve_conflicts(clause_ids, context); args holds the argument
\* objects as the call leaves them
Resolve(clause_ids, context) ==
    LET r == resolve_conflicts(Self, clause_ids, context)
    IN  /\ op' = "resolve"
        /\ args' = [args EXCEPT !.clause_ids = ArgumentAfterSort(Self, clause_ids),
                                !.context = context]
        /\ result' = r.value
        /\ raised' = r.raised
        /\ UNCHANGED <<clauses, interaction_graph, workers, pipeline>>

\* graph.generate_policy_text()
GeneratePolicyText ==
    LET r == generate_policy_text(Self)
    IN  /\ op' = "generate_policy_text"
        /\ result' = r.value
        /\ raised' = r.raised
        /\ UNCHANGED <<clauses, interaction_graph, args, workers, pipeline>>

----------------------------------------------------------------------------
(* The calls step by step, for callers that run concurrently: a call       *)
(* starts, runs its loop one iteration at a time and returns, and between  *)
(* two steps of one caller any other caller may take steps.                *)

\* LocalSlot for locals kept on the graph object (self.active_clauses,
\* self.to_visit, ...): every caller works on the same ones
LocalSlot_Shared(w) == 1

\* where the locals of caller w live: each call has its own frame
LocalSlot(w) == w

\* the locals of a call before it assigns them
\* (queued counts the to_visit entries created so far and processed lists
\* the (id, hops) pairs that passed the `continue` test, in order: they
\* record the run of the loop and are read by no step)
NoFrame == [sorted_clauses |-> <<>>, active_clauses |-> <<>>,
            to_visit |-> <<>>, visited |-> {}, related |-> <<>>,
            queued |-> 0, processed |-> <<>>]

\* one iteration of the while loop of get_related_policies on the locals
RelatedIteration(self, clause_id, max_hops, frame) ==
    LET current_id == Head(frame.to_visit)[1]
        hops == Head(frame.to_visit)[2]
        rest == Tail(frame.to_visit)
    IN  IF SkipVisit(current_id, hops, frame.visited, max_hops)
        THEN [frame EXCEPT !.to_visit = rest]
        ELSE LET visited2 == frame.visited \cup {current_id}
                 added ==
                     IF current_id \in DOMAIN self.interaction_graph
                     THEN ConnectedPairs(self.interaction_graph[current_id],
                                         visited2, hops)
                     ELSE <<>>
             IN  [frame EXCEPT
                     !.to_visit = rest \o added,
                     !.visited = visited2,
                     !.related = AppendRelated(frame.related, current_id, clause_id),
                     !.queued = @ + Len(added),
                     !.processed = Append(@, <<current_id, hops>>)]

\* the while loop run to its end from the given locals
RECURSIVE RelatedRun(_, _, _, _)
RelatedRun(self, clause_id, max_hops, frame) ==
    IF frame.to_visit = <<>> THEN frame
    ELSE RelatedRun(self, clause_id, max_hops,
                    RelatedIteration(self, clause_id, max_hops, frame))

\* one iteration of the for loop of resolve_conflicts on the locals
ResolveIteration(self, context, frame) ==
    [frame EXCEPT
        !.sorted_clauses = Tail(frame.sorted_clauses),
        !.active_clauses = ResolveStep(self, Head(frame.sorted_clauses), context,
                                       frame.active_clauses)]

\* caller w enters its call: the guards, then the locals are assigned
WorkerStart(w) ==
    LET call == workers.call[w]
        k == LocalSlot(w)
        Returns(r) ==
            workers' = [workers EXCEPT !.pc[w] = "done", !.returned[w] = r]
        Enters(frame) ==
            workers' = [workers EXCEPT !.pc[w] = "loop", !.frame[k] = frame]
    IN  /\ workers.pc[w] = "start"
        /\ IF call.method = "resolve"
           THEN IF call.clause_ids = <<>> THEN Returns(Return(<<>>))
                ELSE IF \E i \in 1..Len(call.clause_ids) :
                            call.clause_ids[i] \notin DOMAIN clauses
                     THEN Returns(Raise("KeyError"))
                ELSE Enters([workers.frame[k] EXCEPT
                                !.sorted_clauses = SortedClauses(Self, call.clause_ids),
                                !.active_clauses = ActiveInit])
           ELSE IF call.clause_id \notin DOMAIN clauses THEN Returns(Return(<<>>))
                ELSE Enters([workers.frame[k] EXCEPT
                                !.to_visit = <<<<call.clause_id, 0>>>>,
                                !.visited = {},
                                !.related = <<>>,
                                !.queued = 1,
                                !.processed = <<>>])
        /\ UNCHANGED <<clauses, interaction_graph, op, args, result, raised,
                       pipeline>>

\* caller w runs one iteration of its loop
WorkerIterate(w) ==
    LET call == workers.call[w]
        k == LocalSlot(w)
        frame == workers.frame[k]
    IN  /\ workers.pc[w] = "loop"
        /\ IF call.method = "resolve"
           THEN /\ frame.sorted_clauses # <<>>
                /\ workers' = [workers EXCEPT
                       !.frame[k] = ResolveIteration(Self, call.context, frame)]
           ELSE /\ frame.to_visit # <<>>
                /\ workers' = [workers EXCEPT
                       !.frame[k] = RelatedIteration(Self, call.clause_id,
                                                     call.max_hops, frame)]
        /\ UNCHANGED <<clauses, interaction_graph, op, args, result, raised,
                       pipeline>>

\* caller w leaves its loop and returns active_clauses or related
WorkerReturn(w) ==
    LET call == workers.call[w]
        frame == workers.frame[LocalSlot(w)]
    IN  /\ workers.pc[w] = "loop"
        /\ IF call.method = "resolve"
           THEN /\ frame.sorted_clauses = <<>>
                /\ workers' = [workers EXCEPT
                       !.pc[w] = "done",
                       !.returned[w] = Return(frame.active_clauses)]
           ELSE /\ frame.to_visit = <<>>
                /\ workers' = [workers EXCEPT
                       !.pc[w] = "done",
                       !.returned[w] = Return(frame.related)]
        /\ UNCHANGED <<clauses, interaction_graph, op, args, result, raised,
                       pipeline>>

\* graph._check_conditions(graph.clauses[clause_id], context)
CheckConditions(clause_id, context) ==
    /\ clause_id \in DOMAIN clauses
    /\ op' = "check_conditions"
    /\ args' = [args EXCEPT !.clause_id = clause_id, !.context = context]
    /\ result' = <<check_conditions(clauses[clause_id], context)>>
    /\ raised' = "none"
    /\ UNCHANGED <<clauses, interaction_graph, workers, pipeline>>

----------------------------------------------------------------------------
(* Inputs: contexts.                                                       *)

\* the dicts holding key with a value of S, or not holding it
Field(key, S) == {EmptyDict} \cup {(key :> v) : v \in S}

\* contexts around every threshold of _check_conditions, each field present
\* or missing
Contexts ==
    {a @@ b @@ c @@ d @@ e :
        a \in Field("has_receipt", BOOLEAN),
        b \in Field("days_since_purchase", {14, 15, 30, 31}),
        c \in Field("order_status", {"processing", "shipped", "delivered"}),
        d \in Field("item_value", {500, 501}),
        e \in Field("months_since_purchase", {Months(12), Months(13)})}

\* the names _check_conditions tests for
KnownConditions ==
    {"receipt_required", "within_return_window", "within_price_match_window",
     "order_not_shipped", "item_over_500", "warranty_period"}

\* a name it does not test for
ConditionNames == KnownConditions \cup {"loyalty_member"}

\* the lists over S of length at most n
ListsUpTo(S, n) == UNION {[1..k -> S] : k \in 0..n}

----------------------------------------------------------------------------
(* SpecConditions: _check_conditions, and resolve_conflicts on top of it,  *)
(* for every condition list and context.  P1 carries the conditions and    *)
(* overrides the unconditional P2; the policy document of the ruleset is   *)
(* generated as well.                                                      *)

ConditionsRuleset(conditions) ==
    <<[PolicyClause("P1", "P1 title", "P1 rule") EXCEPT
          !.conditions = conditions, !.overrides = <<"P2">>, !.precedence = 1,
          !.category = "Return Policy"],
      [PolicyClause("P2", "P2 title", "P2 rule") EXCEPT
          !.overridden_by = <<"P1">>, !.precedence = 2,
          !.category = "Shipping Policy"]>>

InitConditions ==
    \E conditions \in ListsUpTo(ConditionNames, MaxConds), context \in Contexts :
        LET graph == BuildGraph(NewPolicyGraph, ConditionsRuleset(conditions))
        IN  /\ clauses = graph.clauses
            /\ interaction_graph = graph.interaction_graph
            /\ op = "init"
            /\ args = [NoArgs EXCEPT !.clause_id = "P1",
                                     !.clause_ids = <<"P2", "P1">>,
                                     !.context = context]
            /\ result = <<>>
            /\ raised = "none"
            /\ workers = NoWorkers
            /\ pipeline = NoPipeline

NextConditions ==
    \/ CheckConditions(args.clause_id, args.context)
    \/ Resolve(args.clause_ids, args.context)
    \/ GeneratePolicyText

SpecConditions == InitConditions /\ [][NextConditions]_vars

----------------------------------------------------------------------------
(* SpecScenario: the three return clauses of the worked scenario, resolved *)
(* for every candidate list over them and an id that is not stored, and    *)
(* every context around the return window; the related policies of the     *)
(* first candidate are asked for as well.  The scenario's clauses are those of create_policy_graph cut    *)
(* down: there the ids carry a POL- prefix, RETURN-001 also requires a     *)
(* receipt and RETURN-002 is conditioned on the return window.             *)

ScenarioRuleset ==
    <<[PolicyClause("RETURN-001", "Return Window", "30-day return window") EXCEPT
          !.conditions = <<"within_return_window">>, !.precedence = 3],
      [PolicyClause("RETURN-002", "Restocking Fee", "15% restocking fee") EXCEPT
          !.overridden_by = <<"RETURN-004">>, !.precedence = 4],
      [PolicyClause("RETURN-004", "Defective Items", "Full refund") EXCEPT
          !.conditions = <<"within_return_window">>,
          !.overrides = <<"RETURN-002">>, !.precedence = 1]>>

ScenarioIds == {"RETURN-001", "RETURN-002", "RETURN-004"}

\* a candidate id the scenario's store does not hold
UnstoredCandidate == "RETURN-003"

ScenarioContexts ==
    {a @@ b : a \in Field("days_since_purchase", {10, 30, 31, 45}),
              b \in Field("has_receipt", BOOLEAN)}

InitScenario ==
    \E clause_ids \in ListsUpTo(ScenarioIds \cup {UnstoredCandidate}, MaxCand),
       context \in ScenarioContexts :
        LET graph == BuildGraph(NewPolicyGraph, ScenarioRuleset)
        IN  /\ clauses = graph.clauses
            /\ interaction_graph = graph.interaction_graph
            /\ op = "init"
            /\ args = [NoArgs EXCEPT !.clause_ids = clause_ids,
                                     !.context = context]
            /\ result = <<>>
            /\ raised = "none"
            /\ workers = NoWorkers
            /\ pipeline = NoPipeline

NextScenario ==
    \/ Resolve(args.clause_ids, args.context)
    \/ /\ args.clause_ids # <<>>
       /\ Related(Head(args.clause_ids), SummaryMaxHops)

SpecScenario == InitScenario /\ [][NextScenario]_vars

----------------------------------------------------------------------------
(* Claims about _check_conditions (SpecConditions).                        *)

\* the condition table of the design: does `condition` pass in `context`?
TablePasses(condition, context) ==
    CASE condition = "receipt_required" ->
            ("has_receipt" \notin DOMAIN context) \/ context["has_receipt"] # FALSE
      [] condition = "within_return_window" ->
            ("days_since_purchase" \notin DOMAIN context)
            \/ context["days_since_purchase"] <= 30
      [] condition = "within_price_match_window" ->
            ("days_since_purchase" \notin DOMAIN context)
            \/ context["days_since_purchase"] <= 14
      [] condition = "order_not_shipped" ->
            ("order_status" \notin DOMAIN context)
            \/ context["order_status"] \notin {"shipped", "delivered"}
      [] condition = "item_over_500" ->
            ("item_value" \in DOMAIN context) /\ context["item_value"] > 500
      [] condition = "warranty_period" ->
            ("months_since_purchase" \notin DOMAIN context)
            \/ context["months_since_purchase"] <= Months(12)
      [] OTHER -> TRUE

\* C6: check_conditions is true iff every condition of the clause passes
\* under the condition table, a missing context field taking its default;
\* it raises nothing, and an empty condition list passes.
C6_CheckConditionsTable ==
    op = "check_conditions" =>
        LET conditions == clauses[args.clause_id].conditions
        IN  /\ raised = "none"
            /\ result = <<\A i \in 1..Len(conditions) :
                              TablePasses(conditions[i], args.context)>>
            /\ (conditions = <<>> => result = <<TRUE>>)

\* the return window passes at its boundary of 30 days, with has_receipt
\* missing from the context
C6_Witness ==
    /\ op = "check_conditions"
    /\ clauses[args.clause_id].conditions =
           <<"within_return_window", "receipt_required">>
    /\ "has_receipt" \notin DOMAIN args.context
    /\ DictGet(args.context, "days_since_purchase", 0) = 30
    /\ result = <<TRUE>>

\* a clause with the unrecognized names taken out of its condition list
StripUnrecognized(clause) ==
    LET Known(c) == c \in KnownConditions
    IN  [clause EXCEPT !.conditions = SelectSeq(clause.conditions, Known)]

StrippedSelf ==
    [clauses |-> [id \in DOMAIN clauses |-> StripUnrecognized(clauses[id])],
     interaction_graph |-> interaction_graph]

\* C7: an unrecognized condition name passes in every context and raises
\* nothing: check_conditions and resolve_conflicts give what they give for
\* the clause without that name, so for a clause without conditions when
\* all its names are unrecognized.
C7_UnrecognizedPasses ==
    /\ op = "check_conditions" =>
          /\ raised = "none"
          /\ result = <<check_conditions(StripUnrecognized(clauses[args.clause_id]),
                                         args.context)>>
    /\ op = "resolve" =>
          /\ raised = "none"
          /\ result = resolve_conflicts(StrippedSelf, args.clause_ids,
                                        args.context).value

\* P1 has only unrecognized conditions, becomes active and suppresses P2
C7_Witness ==
    /\ op = "resolve"
    /\ clauses["P1"].conditions = <<"loyalty_member", "loyalty_member">>
    /\ result = <<"P1">>

----------------------------------------------------------------------------
(* Claims about the worked scenario (SpecScenario).                        *)

ScenarioCandidates == <<"RETURN-001", "RETURN-002", "RETURN-004">>

\* C8: with days_since_purchase 10 and a receipt, the three return clauses
\* resolve to RETURN-004 followed by RETURN-001.
C8_ScenarioInWindow ==
    ( /\ op = "resolve"
      /\ args.clause_ids = ScenarioCandidates
      /\ args.context = ("days_since_purchase" :> 10) @@ ("has_receipt" :> TRUE) )
    => (raised = "none" /\ result = <<"RETURN-004", "RETURN-001">>)

C8_Witness ==
    /\ op = "resolve"
    /\ args.clause_ids = ScenarioCandidates
    /\ args.context = ("days_since_purchase" :> 10) @@ ("has_receipt" :> TRUE)
    /\ result = <<"RETURN-004", "RETURN-001">>

\* C9: with days_since_purchase 45 the three return clauses resolve to
\* RETURN-002 alone: RETURN-004 fails its conditions and suppresses nothing.
C9_ScenarioOutOfWindow ==
    ( /\ op = "resolve"
      /\ args.clause_ids = ScenarioCandidates
      /\ args.context = ("days_since_purchase" :> 45) )
    => (raised = "none" /\ result = <<"RETURN-002">>)

C9_Witness ==
    /\ op = "resolve"
    /\ args.clause_ids = ScenarioCandidates
    /\ args.context = ("days_since_purchase" :> 45)
    /\ ~check_conditions(clauses["RETURN-004"], args.context)
    /\ result = <<"RETURN-002">>

\* the lines of a policy document that shows the id, title and rule of every
\* stored clause and the name of every category, underlined
DocumentLines ==
    UNION {{"\n" \o clauses[id].category,
            Underline(Len(clauses[id].category)),
            "\n[" \o id \o "] " \o clauses[id].title,
            "Rule: " \o clauses[id].rule} : id \in DOMAIN clauses}

\* C16: every line of the generated policy document is a category header,
\* its underline, the id and title of a clause or its rule; no line shows
\* the conditions, the precedence or the relations of a clause.
C16_OnlyIdTitleRule ==
    op = "generate_policy_text" =>
        /\ Elems(result) \subseteq DocumentLines
        /\ DocumentLines \subseteq Elems(result)

\* C13: resolve called with candidates that are all stored returns a list of
\* candidates and raises nothing, whatever the context holds or lacks; it
\* raises only when some candidate is not stored.
C13_ResolveTotalOnStored ==
    op = "resolve" =>
        /\ (\A i \in 1..Len(args.clause_ids) : args.clause_ids[i] \in DOMAIN clauses)
               => (raised = "none" /\ Elems(result) \subseteq Elems(args.clause_ids))
        /\ raised # "none"
               => \E i \in 1..Len(args.clause_ids) :
                      args.clause_ids[i] \notin DOMAIN clauses

\* three stored candidates with window conditions are resolved under the
\* empty context
C13_Witness ==
    /\ op = "resolve"
    /\ args.clause_ids = <<"RETURN-002", "RETURN-001", "RETURN-004">>
    /\ args.context = EmptyDict
    /\ raised = "none"
    /\ result = <<"RETURN-004", "RETURN-001">>

----------------------------------------------------------------------------
(* SpecWorkers: two callers on the scenario's ruleset, each making one     *)
(* call, a resolve_conflicts over any candidate list or a                  *)
(* get_related_policies from any clause, their steps interleaved in every  *)
(* order.  The first caller resolves under a context inside the return     *)
(* window, the second under one outside it.                                *)

WorkerIds == {1, 2}

WorkerContexts ==
    <<("days_since_purchase" :> 10) @@ ("has_receipt" :> TRUE),
      ("days_since_purchase" :> 45) @@ ("has_receipt" :> TRUE)>>

WorkerCalls(w) ==
    {[method |-> "resolve", clause_id |-> "", max_hops |-> 0,
      clause_ids |-> clause_ids, context |-> WorkerContexts[w]] :
        clause_ids \in ListsUpTo(ScenarioIds, MaxCand)}
    \cup
    {[method |-> "related", clause_id |-> clause_id, max_hops |-> SummaryMaxHops,
      clause_ids |-> <<>>, context |-> EmptyDict] :
        clause_id \in ScenarioIds \cup {UnstoredCandidate}}

InitWorkers ==
    \E call1 \in WorkerCalls(1), call2 \in WorkerCalls(2) :
        LET graph == BuildGraph(NewPolicyGraph, ScenarioRuleset)
        IN  /\ clauses = graph.clauses
            /\ interaction_graph = graph.interaction_graph
            /\ op = "init"
            /\ args = NoArgs
            /\ result = <<>>
            /\ raised = "none"
            /\ workers = [call |-> <<call1, call2>>,
                          pc |-> <<"start", "start">>,
                          frame |-> <<NoFrame, NoFrame>>,
                          returned |-> <<Return(<<>>), Return(<<>>)>>]
            /\ pipeline = NoPipeline

NextWorkers ==
    \E w \in WorkerIds :
        \/ WorkerStart(w)
        \/ WorkerIterate(w)
        \/ WorkerReturn(w)

SpecWorkers == InitWorkers /\ [][NextWorkers]_vars

\* what the call returns or raises when it runs alone
AloneOutcome(call) ==
    IF call.method = "resolve"
    THEN resolve_conflicts(Self, call.clause_ids, call.context)
    ELSE get_related_policies(Self, call.clause_id, call.max_hops)

\* C18: a related or resolve call that ran interleaved with another
\* caller's call, no lock taken, returns what it returns when run alone.
C18_InterleavedCallsAsAlone ==
    \A w \in DOMAIN workers.pc :
        workers.pc[w] = "done" =>
            workers.returned[w] = AloneOutcome(workers.call[w])

\* the first caller's resolve has returned while the second caller's, over
\* the same candidates, is between two iterations of its loop
C18_Witness ==
    /\ DOMAIN workers.pc = WorkerIds
    /\ workers.call[1].method = "resolve"
    /\ workers.call[1].clause_ids = <<"RETURN-002", "RETURN-001", "RETURN-004">>
    /\ workers.call[2].method = "resolve"
    /\ workers.call[2].clause_ids = <<"RETURN-002", "RETURN-001", "RETURN-004">>
    /\ workers.pc[1] = "done"
    /\ workers.returned[1].value = <<"RETURN-004", "RETURN-001">>
    /\ workers.pc[2] = "loop"
    /\ Len(workers.frame[2].sorted_clauses) = 2

----------------------------------------------------------------------------
(* SpecRelated: get_related_policies for every ruleset of four stored      *)
(* clauses with at most MaxEdges relation entries, which may name the id   *)
(* PX that is not stored, from the stored start P1 (the rulesets drawn are *)
(* closed under renaming the stored ids) and from the unknown start PX.    *)

StoredIds == {"P1", "P2", "P3", "P4"}
UnknownId == "PX"
IdOrder == <<"P1", "P2", "P3", "P4", "PX">>

\* the relation entries of a ruleset: (clause, named id) pairs
EdgeSets ==
    {E \in SUBSET (StoredIds \X (StoredIds \cup {UnknownId})) :
        Cardinality(E) <= MaxEdges}

\* the ids E relates to id, as a list
Targets(E, id) ==
    LET Named(t) == <<id, t>> \in E
    IN  SelectSeq(IdOrder, Named)

RelatedRuleset(E) ==
    [i \in 1..4 |->
        [PolicyClause(IdOrder[i], "title", "rule") EXCEPT
            !.interacts_with = Targets(E, IdOrder[i])]]

InitRelated ==
    \E E \in EdgeSets, clause_id \in {"P1", UnknownId}, max_hops \in 0..MaxHops :
        LET graph == BuildGraph(NewPolicyGraph, RelatedRuleset(E))
        IN  /\ clauses = graph.clauses
            /\ interaction_graph = graph.interaction_graph
            /\ op = "init"
            /\ args = [NoArgs EXCEPT !.clause_id = clause_id,
                                     !.max_hops = max_hops]
            /\ result = <<>>
            /\ raised = "none"
            /\ workers = NoWorkers
            /\ pipeline = NoPipeline

NextRelated == Related(args.clause_id, args.max_hops)

SpecRelated == InitRelated /\ [][NextRelated]_vars

----------------------------------------------------------------------------
(* Claims about get_related_policies (SpecRelated).                        *)

\* the ids a directed path of at most n index entries leads to from id
RECURSIVE Within(_, _)
Within(id, n) ==
    IF n = 0 THEN {id}
    ELSE LET near == Within(id, n - 1)
         IN  near \cup UNION {Elems(interaction_graph[x]) :
                                 x \in near \cap DOMAIN interaction_graph}

\* C4: the ids returned for a smaller hop limit are all returned for a
\* larger one.
C4_MonotonicTraversal ==
    op = "related" =>
        \A h1 \in 0..args.max_hops :
            Elems(get_related_policies(Self, args.clause_id, h1).value)
                \subseteq Elems(result)

\* a call with a hop limit of 3 whose result is larger than that for 2
C4_Witness ==
    /\ op = "related"
    /\ args.max_hops = 3
    /\ Elems(get_related_policies(Self, args.clause_id, 2).value) # {}
    /\ Elems(get_related_policies(Self, args.clause_id, 2).value) # Elems(result)

\* C5: from a stored start, related returns each id once, never the start,
\* and exactly the ids whose shortest path from the start has between 1 and
\* max_hops entries; nothing for max_hops = 0.
C5_ExactNeighbourhood ==
    (op = "related" /\ args.clause_id \in DOMAIN clauses) =>
        /\ raised = "none"
        /\ \A i, j \in 1..Len(result) : result[i] = result[j] => i = j
        /\ args.clause_id \notin Elems(result)
        /\ Elems(result) = Within(args.clause_id, args.max_hops) \ {args.clause_id}
        /\ (args.max_hops = 0 => result = <<>>)

\* the start lies on a cycle and names itself, and an id two hops away is
\* returned while one three hops away is not
C5_Witness ==
    /\ op = "related"
    /\ args.clause_id = "P1"
    /\ args.max_hops = 2
    /\ InList("P1", interaction_graph["P1"])
    /\ InList("P1", interaction_graph["P2"])
    /\ Len(result) = 2
    /\ Within("P1", 3) # Within("P1", 2)

\* C10 as stated: related with a start id that is not stored fails with
\* NotFound.
C10_UnknownStartNotFound ==
    (op = "related" /\ args.clause_id \notin DOMAIN clauses) =>
        raised = "NotFound"

\* C10: related with a start id that is not stored returns the empty list
\* and raises nothing.
C10_UnknownStartEmpty ==
    (op = "related" /\ args.clause_id \notin DOMAIN clauses) =>
        (raised = "none" /\ result = <<>>)

\* the start PX is not stored, though a stored clause names it
C10_Witness ==
    /\ op = "related"
    /\ args.clause_id = UnknownId
    /\ UnknownId \notin DOMAIN clauses
    /\ InList(UnknownId, interaction_graph["P1"])
    /\ args.max_hops = 2
    /\ result = <<>>

\* C11 as stated: when the traversal from a stored start reaches an id that
\* a relation list names but the store lacks, related fails with NotFound,
\* and no id that is not stored is ever returned.
C11_DanglingNotFound ==
    (op = "related" /\ args.clause_id \in DOMAIN clauses) =>
        /\ (Within(args.clause_id, args.max_hops) \ DOMAIN clauses # {} =>
                raised = "NotFound")
        /\ Elems(result) \subseteq DOMAIN clauses

\* C11: when the traversal from a stored start reaches an id that a
\* relation list names but the store lacks, related raises nothing and
\* returns that id with the stored ids it reached.
C11_DanglingReturned ==
    (op = "related" /\ args.clause_id \in DOMAIN clauses) =>
        /\ raised = "none"
        /\ Within(args.clause_id, args.max_hops) \ DOMAIN clauses
               \subseteq Elems(result)

\* PX is not stored, P2 names it, and the call from P1 returns it at two hops
C11_Witness ==
    /\ op = "related"
    /\ args.clause_id = "P1"
    /\ args.max_hops = 2
    /\ UnknownId \notin DOMAIN clauses
    /\ InList(UnknownId, interaction_graph["P2"])
    /\ ~InList(UnknownId, interaction_graph["P1"])
    /\ raised = "none"
    /\ InList(UnknownId, result)

----------------------------------------------------------------------------
(* SpecBuild: a ruleset under construction.  Starting from an empty graph, *)
(* add_clause is called any number of times with clauses named B1 and B2   *)
(* (a later call for the same id replaces the clause), and between the     *)
(* calls the interaction summary of save_policy_graph asks for the related *)
(* policies of a stored clause.  The relation lists name the other clause  *)
(* and BX, which is never added.                                           *)

BuildIds == {"B1", "B2"}
DanglingId == "BX"
OtherId(id) == IF id = "B1" THEN "B2" ELSE "B1"

RelationFields == <<"interacts_with", "modifies", "modified_by",
                    "overrides", "overridden_by", "requires">>

NoRelations == [f \in Elems(RelationFields) |-> <<>>]

\* the clause named id whose six relation lists are those of rel
WithRelations(id, rel) ==
    [PolicyClause(id, "title", "rule") EXCEPT
        !.interacts_with = rel["interacts_with"],
        !.modifies = rel["modifies"],
        !.modified_by = rel["modified_by"],
        !.overrides = rel["overrides"],
        !.overridden_by = rel["overridden_by"],
        !.requires = rel["requires"]]

\* the relation lists drawn for the clause named id: none; one list naming
\* the other clause, BX or both; two lists, the earlier naming the other
\* clause and the later naming the other clause again or BX
BuildRelations(id) ==
    LET one == {<<OtherId(id)>>, <<DanglingId>>, <<OtherId(id), DanglingId>>}
    IN  {NoRelations}
        \cup {[NoRelations EXCEPT ![RelationFields[f]] = l] :
                f \in 1..6, l \in one}
        \cup {[NoRelations EXCEPT ![RelationFields[fg[1]]] = <<OtherId(id)>>,
                                  ![RelationFields[fg[2]]] = <<x>>] :
                fg \in {p \in (1..6) \X (1..6) : p[1] < p[2]},
                x \in {OtherId(id), DanglingId}}

BuildClauses ==
    UNION {{WithRelations(id, rel) : rel \in BuildRelations(id)} : id \in BuildIds}

InitBuild ==
    /\ clauses = NewPolicyGraph.clauses
    /\ interaction_graph = NewPolicyGraph.interaction_graph
    /\ op = "init"
    /\ args = NoArgs
    /\ result = <<>>
    /\ raised = "none"
    /\ workers = NoWorkers
    /\ pipeline = NoPipeline

NextBuild ==
    \/ \E clause \in BuildClauses : AddClause(clause)
    \/ \E clause_id \in DOMAIN clauses : Related(clause_id, SummaryMaxHops)

SpecBuild == InitBuild /\ [][NextBuild]_vars

----------------------------------------------------------------------------
(* Claims about add_clause (SpecBuild).                                    *)

\* some stored clause's index entry names an id that is not stored
HasDanglingReference ==
    \E id \in DOMAIN interaction_graph :
        ~(Elems(interaction_graph[id]) \subseteq DOMAIN clauses)

\* the ids the six relation lists of a clause name
RelationNames(clause) ==
    Elems(clause.interacts_with) \cup Elems(clause.modifies)
    \cup Elems(clause.modified_by) \cup Elems(clause.overrides)
    \cup Elems(clause.overridden_by) \cup Elems(clause.requires)

\* how often x occurs in the list s
Count(x, s) == Cardinality({i \in 1..Len(s) : s[i] = x})

\* how often the six relation lists of a clause name x, all together
TimesNamed(x, clause) ==
    Count(x, clause.interacts_with) + Count(x, clause.modifies)
    + Count(x, clause.modified_by) + Count(x, clause.overrides)
    + Count(x, clause.overridden_by) + Count(x, clause.requires)

\* C12 as stated: a ruleset in which a relation list names an id that is not
\* stored is never accepted: no related call is served on it.
C12_DanglingRejected ==
    (op = "related" /\ raised = "none") => ~HasDanglingReference

\* C12: a ruleset in which a relation list names an id that is not stored is
\* accepted: add_clause raises nothing and stores such a clause with every
\* name in its index entry, and related calls on the ruleset are served.
C12_DanglingAccepted ==
    /\ (op = "add_clause"
         /\ ~(Elems(AllInteractions(args.clause)) \subseteq DOMAIN clauses)) =>
            /\ raised = "none"
            /\ args.clause.clause_id \in DOMAIN clauses
            /\ clauses[args.clause.clause_id] = args.clause
            /\ Elems(AllInteractions(args.clause))
                   \subseteq Elems(interaction_graph[args.clause.clause_id])
    /\ (op = "related" /\ HasDanglingReference) => raised = "none"

\* both clauses are stored, B1 names BX, which is not, and the related
\* policies of B2 are served and include BX
C12_Witness ==
    /\ op = "related"
    /\ DOMAIN clauses = BuildIds
    /\ InList(DanglingId, interaction_graph["B1"])
    /\ args.clause_id = "B2"
    /\ raised = "none"
    /\ InList(DanglingId, result)

\* C14 as stated: the index entry of every stored clause holds exactly the
\* ids its six relation lists name, each of them once.
C14_EntryIsSet ==
    \A id \in DOMAIN clauses :
        /\ Elems(interaction_graph[id]) = RelationNames(clauses[id])
        /\ \A x \in RelationNames(clauses[id]) :
               Count(x, interaction_graph[id]) = 1

\* C14: the index entry of every stored clause holds exactly the ids its six
\* relation lists name, each as often as the lists name it all together.
C14_EntryIsConcatenation ==
    \A id \in DOMAIN clauses :
        /\ Elems(interaction_graph[id]) = RelationNames(clauses[id])
        /\ \A x \in RelationNames(clauses[id]) :
               Count(x, interaction_graph[id]) = TimesNamed(x, clauses[id])

\* B1 names B2 in overrides and in requires, and its entry holds B2 twice
C14_Witness ==
    /\ op = "add_clause"
    /\ args.clause.clause_id = "B1"
    /\ clauses["B1"].overrides = <<"B2">>
    /\ clauses["B1"].requires = <<"B2">>
    /\ interaction_graph["B1"] = <<"B2", "B2">>

\* C15: the index has the keys of the store, every clause is stored under
\* its own id and every entry names what the clause now stored names; an
\* add_clause call stores its clause under the clause's id, removes no id
\* and leaves the clause and the entry of every other id as they were.
C15_AddClauseKeepsIndexCurrent ==
    /\ [](/\ DOMAIN interaction_graph = DOMAIN clauses
          /\ \A id \in DOMAIN clauses :
                /\ clauses[id].clause_id = id
                /\ Elems(interaction_graph[id]) = RelationNames(clauses[id]))
    /\ [][op' = "add_clause" =>
            /\ clauses'[args'.clause.clause_id] = args'.clause
            /\ DOMAIN clauses' = DOMAIN clauses \cup {args'.clause.clause_id}
            /\ \A id \in DOMAIN clauses \ {args'.clause.clause_id} :
                  /\ clauses'[id] = clauses[id]
                  /\ interaction_graph'[id] = interaction_graph[id]]_vars

\* B1 was added last, with no relations, while B2 is stored and names B1
\* and BX
C15_Witness ==
    /\ op = "add_clause"
    /\ args.clause.clause_id = "B1"
    /\ DOMAIN clauses = BuildIds
    /\ interaction_graph["B1"] = <<>>
    /\ interaction_graph["B2"] = <<"B1", DanglingId>>

\* the length of the shortest path of index entries from the start of the
\* call to id; max_hops + 1 stands for every larger length
Distance(id) ==
    IF id \notin Within(args.clause_id, args.max_hops) THEN args.max_hops + 1
    ELSE CHOOSE n \in 0..args.max_hops :
            /\ id \in Within(args.clause_id, n)
            /\ n > 0 => id \notin Within(args.clause_id, n - 1)

\* the locals of the call when its loop has ended
FinalFrame ==
    RelatedRun(Self, args.clause_id, args.max_hops,
               [NoFrame EXCEPT !.to_visit = <<<<args.clause_id, 0>>>>,
                               !.queued = 1])

\* C24: from a stored start, the returned ids stand in order of their hop
\* distance from the start, every id that passes the visited test carries
\* its hop distance, and a call repeated on the ruleset returns the same
\* list in the same order.
C24_BreadthOrder ==
    /\ []((op = "related" /\ args.clause_id \in DOMAIN clauses) =>
            LET final == FinalFrame
            IN  /\ result = final.related
                /\ \A i, j \in 1..Len(result) :
                      i < j => Distance(result[i]) <= Distance(result[j])
                /\ \A k \in 1..Len(final.processed) :
                      final.processed[k][2] = Distance(final.processed[k][1]))
    /\ [][(op = "related" /\ op' = "related" /\ args' = args
              /\ clauses' = clauses /\ interaction_graph' = interaction_graph)
          => result' = result]_vars

\* P2 and P3 are one hop from P1 and P4 two, named by P3, and the call
\* returns P4 after both
C24_Witness ==
    /\ op = "related"
    /\ args.clause_id = "P1"
    /\ args.max_hops = 2
    /\ interaction_graph["P1"] = <<"P2", "P3">>
    /\ interaction_graph["P2"] = <<>>
    /\ interaction_graph["P3"] = <<"P4">>
    /\ result = <<"P2", "P3", "P4">>

----------------------------------------------------------------------------
(* SpecResolve: resolve_conflicts for every ruleset of three stored        *)
(* clauses with at most MaxEdges override entries between them, every      *)
(* precedence in 1..MaxPrec (non-decreasing from R1 to R3: the rulesets    *)
(* drawn are closed under renaming the ids), every candidate list of at    *)
(* most MaxCand stored ids, repeated ids included, and a context one day   *)
(* past the return window: a clause conditioned on the window fails, one   *)
(* without conditions passes, so every pass/fail pattern of the three      *)
(* clauses occurs.                                                         *)

ResolveIds == {"R1", "R2", "R3"}
ResolveOrder == <<"R1", "R2", "R3">>

OverrideSets ==
    {O \in SUBSET {p \in ResolveIds \X ResolveIds : p[1] # p[2]} :
        Cardinality(O) <= MaxEdges}

\* the ids O says id overrides, as a list
Overridden(O, id) ==
    LET Named(t) == <<id, t>> \in O
    IN  SelectSeq(ResolveOrder, Named)

Precedences ==
    {p \in [1..3 -> 1..MaxPrec] : p[1] <= p[2] /\ p[2] <= p[3]}

ConditionChoices == {<<>>, <<"within_return_window">>}

ResolveRuleset(O, p, c) ==
    [i \in 1..3 |->
        [PolicyClause(ResolveOrder[i], "title", "rule") EXCEPT
            !.overrides = Overridden(O, ResolveOrder[i]),
            !.precedence = p[i],
            !.conditions = c[i]]]

ResolveContexts == {("days_since_purchase" :> 31) @@ ("has_receipt" :> TRUE)}

InitResolve ==
    \E O \in OverrideSets, p \in Precedences, c \in [1..3 -> ConditionChoices] :
        LET graph == BuildGraph(NewPolicyGraph, ResolveRuleset(O, p, c))
        IN  /\ clauses = graph.clauses
            /\ interaction_graph = graph.interaction_graph
            /\ op = "init"
            /\ \E clause_ids \in ListsUpTo(ResolveIds, MaxCand),
                  context \in ResolveContexts :
                   args = [NoArgs EXCEPT !.clause_ids = clause_ids,
                                         !.context = context]
            /\ result = <<>>
            /\ raised = "none"
            /\ workers = NoWorkers
            /\ pipeline = NoPipeline

NextResolve == Resolve(args.clause_ids, args.context)

SpecResolve == InitResolve /\ [][NextResolve]_vars

----------------------------------------------------------------------------
(* Claims about resolve_conflicts (SpecResolve).                           *)

\* A names B in its overrides list
Overrides(A, B) == InList(B, clauses[A].overrides)

\* C1: the returned list holds no two distinct clauses one of which names
\* the other in its overrides list.
C1_NoActiveOverrideConflict ==
    op = "resolve" =>
        \A A, B \in Elems(result) : A # B => ~Overrides(A, B)

\* two candidates override each other, both pass their conditions, and one
\* of them is returned
C1_Witness ==
    /\ op = "resolve"
    /\ \E A, B \in Elems(args.clause_ids) :
          /\ A # B /\ Overrides(A, B) /\ Overrides(B, A)
          /\ check_conditions(clauses[A], args.context)
          /\ check_conditions(clauses[B], args.context)
          /\ A \in Elems(result)
    /\ Len(result) = 2

\* the precedence of a stored clause
Prec(A) == clauses[A].precedence

\* the clause's own conditions hold in the context of the call
Eligible(A) == check_conditions(clauses[A], args.context)

\* C2 as stated: a candidate B is not returned when a candidate A of lower
\* precedence number names B in its overrides list and A's conditions hold.
C2_PrecedenceAlwaysSuppresses ==
    op = "resolve" =>
        \A A, B \in Elems(args.clause_ids) :
            (Prec(A) < Prec(B) /\ Overrides(A, B) /\ Eligible(A))
                => B \notin Elems(result)

\* C2: a candidate B is not returned when a candidate A of lower precedence
\* number names B in its overrides list, A's conditions hold and no
\* candidate names A in its own overrides list; the order of the candidate
\* list does not matter.
C2_PrecedenceSuppressesUnlessOverridden ==
    op = "resolve" =>
        \A A, B \in Elems(args.clause_ids) :
            ( /\ Prec(A) < Prec(B) /\ Overrides(A, B) /\ Eligible(A)
              /\ \A X \in Elems(args.clause_ids) : ~Overrides(X, A) )
                => B \notin Elems(result)

\* B is passed before A and passes its own conditions, and A suppresses it
C2_Witness ==
    /\ op = "resolve"
    /\ \E i, j \in 1..Len(args.clause_ids) :
          LET B == args.clause_ids[i]
              A == args.clause_ids[j]
          IN  /\ i < j
              /\ Prec(A) < Prec(B) /\ Overrides(A, B)
              /\ Eligible(A) /\ Eligible(B)
              /\ \A X \in Elems(args.clause_ids) : ~Overrides(X, A)
              /\ A \in Elems(result) /\ B \notin Elems(result)

RECURSIVE IsSubsequence(_, _)
IsSubsequence(s, t) ==
    IF s = <<>> THEN TRUE
    ELSE IF t = <<>> THEN FALSE
    ELSE IF Head(s) = Head(t) THEN IsSubsequence(Tail(s), Tail(t))
    ELSE IsSubsequence(s, Tail(t))

\* the ids of the list s whose clause has precedence v
OfPrecedence(s, v) ==
    LET Has(id) == Prec(id) = v
    IN  SelectSeq(s, Has)

\* C20: the list resolve returns is in non-decreasing order of precedence,
\* and the returned clauses of one precedence stand in the order they had
\* in the candidate list.
C20_PrecedenceOrderStable ==
    (op = "resolve" /\ raised = "none") =>
        /\ \A i, j \in 1..Len(result) :
              i < j => Prec(result[i]) <= Prec(result[j])
        /\ \A v \in {Prec(id) : id \in Elems(result)} :
              IsSubsequence(OfPrecedence(result, v),
                            OfPrecedence(args.clause_ids, v))

\* R2 and R3 have one precedence and are returned after R1 in the order
\* the candidate list had them, R3 first
C20_Witness ==
    /\ op = "resolve"
    /\ args.clause_ids = <<"R3", "R2", "R1">>
    /\ Prec("R1") < Prec("R2")
    /\ Prec("R2") = Prec("R3")
    /\ result = <<"R1", "R3", "R2">>

\* C21 as stated: a candidate that removes an active clause has the
\* precedence of the clause it removes.
C21_EvictionOnlyOnTies ==
    op = "resolve" =>
        \A e \in ResolveRemovals(Self, args.clause_ids, args.context) :
            Prec(e[1]) = Prec(e[2])

\* C21: a candidate that removes an active clause has the precedence of
\* the clause it removes or a larger precedence number, never a smaller one.
C21_EvictionNeverByHigherAuthority ==
    op = "resolve" =>
        \A e \in ResolveRemovals(Self, args.clause_ids, args.context) :
            Prec(e[1]) <= Prec(e[2])

\* R2, of larger precedence number than R1, names R1 in overrides and
\* removes it from the active clauses
C21_Witness ==
    /\ op = "resolve"
    /\ args.clause_ids = <<"R1", "R2">>
    /\ Prec("R1") < Prec("R2")
    /\ <<"R1", "R2">> \in ResolveRemovals(Self, args.clause_ids, args.context)
    /\ result = <<"R2">>

\* the list s with every occurrence of x left out
Without(s, x) ==
    LET Other(y) == y # x
    IN  SelectSeq(s, Other)

\* C22: a candidate whose conditions fail in the context does not change
\* what resolve returns: the call returns the list it returns for the
\* candidate list with that candidate left out.
C22_FailingCandidateHasNoEffect ==
    (op = "resolve" /\ raised = "none") =>
        \A C \in Elems(args.clause_ids) :
            ~Eligible(C) =>
                result = resolve_conflicts(Self, Without(args.clause_ids, C),
                                           args.context).value

\* C25: every id resolve returns is one of the candidates passed, and the
\* conditions of its clause hold in the context passed.
C25_ResultWithinEligibleCandidates ==
    op = "resolve" =>
        \A id \in Elems(result) :
            /\ id \in Elems(args.clause_ids)
            /\ Eligible(id)

\* R1 is returned alone: R2 is a candidate whose conditions fail, and R3,
\* which R1 names in overrides and whose conditions hold, is no candidate
C25_Witness ==
    /\ op = "resolve"
    /\ args.clause_ids = <<"R1", "R2">>
    /\ ~Eligible("R2")
    /\ Eligible("R3")
    /\ Overrides("R1", "R3")
    /\ result = <<"R1">>

\* C26: resolve_conflicts is idempotent: called on the list it returned, with
\* the same context, it returns that list again, same ids in the same order.
C26_ResolveIdempotent ==
    op = "resolve" /\ raised = "none" =>
        resolve_conflicts(Self, result, args.context) = Return(result)

\* the first call evicted R1 for R2 and kept R3; the second call gets
\* <<R2, R3>> and returns it
C26_Witness ==
    /\ op = "resolve"
    /\ args.clause_ids = <<"R1", "R2", "R3">>
    /\ Overrides("R2", "R1")
    /\ <<"R1", "R2">> \in ResolveRemovals(Self, args.clause_ids, args.context)
    /\ result = <<"R2", "R3">>
    /\ resolve_conflicts(Self, result, args.context) = Return(<<"R2", "R3">>)

\* the lists that hold the elements of s in another order (s included)
Reorderings(s) ==
    {[i \in 1..Len(s) |-> s[f[i]]] :
        f \in {g \in [1..Len(s) -> 1..Len(s)] :
                  \A i, j \in 1..Len(s) : g[i] = g[j] => i = j}}

\* what resolve_conflicts returns for the candidates in the order q
Resolved(q) == resolve_conflicts(Self, q, args.context).value

\* C27 as stated: whatever the ruleset, every reordering of the candidate
\* list makes resolve return the same set of ids.
C27_OrderNeverChangesSet ==
    op = "resolve" /\ raised = "none" =>
        \A q \in Reorderings(args.clause_ids) :
            Elems(Resolved(q)) = Elems(result)

\* every overrides list of the ruleset names clauses of a strictly larger
\* precedence number only, as the lists create_policy_graph writes do
OverridesPointDown ==
    \A A \in DOMAIN clauses, B \in DOMAIN clauses :
        Overrides(A, B) => Prec(A) < Prec(B)

\* C27: on a ruleset whose overrides lists name clauses of a strictly larger
\* precedence number only, every reordering of the candidate list makes
\* resolve return the same ids, each as often, and only the order of ids of
\* one precedence differs.
C27_OrderIrrelevantWhenOverridesPointDown ==
    op = "resolve" /\ raised = "none" /\ OverridesPointDown =>
        \A q \in Reorderings(args.clause_ids) :
            /\ Elems(Resolved(q)) = Elems(result)
            /\ \A id \in ResolveIds : Count(id, Resolved(q)) = Count(id, result)
            /\ \A i \in 1..Len(result) :
                   Prec(Resolved(q)[i]) = Prec(result[i])

\* R2 and R3 share a precedence, R1 overrides R3 and its conditions hold:
\* <<R3, R2, R1>> is sorted to <<R1, R3, R2>> and gives <<R1, R2>>, the
\* reordering <<R2, R3, R1>> is sorted to <<R1, R2, R3>> and gives the same
C27_Witness ==
    /\ op = "resolve"
    /\ OverridesPointDown
    /\ Overrides("R1", "R3")
    /\ Prec("R2") = Prec("R3")
    /\ args.clause_ids = <<"R3", "R2", "R1">>
    /\ result = <<"R1", "R2">>
    /\ Resolved(<<"R2", "R3", "R1">>) = <<"R1", "R2">>

----------------------------------------------------------------------------
(* SpecOverriddenBy: resolve_conflicts for every ruleset of two clauses    *)
(* whose overrides and overridden_by lists are drawn independently of each *)
(* other, every precedence in 1..MaxPrec, every candidate list of at most  *)
(* MaxCand ids and the context one day past the return window.             *)

PairIds == {"Q1", "Q2"}
PairOrder == <<"Q1", "Q2">>

\* (clause, named id) entries between the two clauses
PairEntries == {<<"Q1", "Q2">>, <<"Q2", "Q1">>}

\* the ids a set of entries says id names, as a list
PairNamed(E, id) ==
    LET Named(t) == <<id, t>> \in E
    IN  SelectSeq(PairOrder, Named)

PairRuleset(O, B, p, c) ==
    [i \in 1..2 |->
        [PolicyClause(PairOrder[i], "title", "rule") EXCEPT
            !.overrides = PairNamed(O, PairOrder[i]),
            !.overridden_by = PairNamed(B, PairOrder[i]),
            !.precedence = p[i],
            !.conditions = c[i]]]

InitOverriddenBy ==
    \E O \in SUBSET PairEntries, B \in SUBSET PairEntries,
       p \in [1..2 -> 1..MaxPrec], c \in [1..2 -> ConditionChoices],
       clause_ids \in ListsUpTo(PairIds, MaxCand), context \in ResolveContexts :
        LET graph == BuildGraph(NewPolicyGraph, PairRuleset(O, B, p, c))
        IN  /\ clauses = graph.clauses
            /\ interaction_graph = graph.interaction_graph
            /\ op = "init"
            /\ args = [NoArgs EXCEPT !.clause_ids = clause_ids,
                                     !.context = context]
            /\ result = <<>>
            /\ raised = "none"
            /\ workers = NoWorkers
            /\ pipeline = NoPipeline

NextOverriddenBy == Resolve(args.clause_ids, args.context)

SpecOverriddenBy == InitOverriddenBy /\ [][NextOverriddenBy]_vars

\* B names A in its overridden_by list
OverriddenBy(B, A) == InList(A, clauses[B].overridden_by)

\* the graph object with every overridden_by list emptied
WithoutOverriddenBy ==
    [clauses |-> [id \in DOMAIN clauses |->
                    [clauses[id] EXCEPT !.overridden_by = <<>>]],
     interaction_graph |-> interaction_graph]

\* C19 as stated: when B names A in overridden_by and both are candidates
\* whose conditions hold, resolve does not return both, whether or not A's
\* overrides list names B.
C19_OverriddenByAuthoritative ==
    op = "resolve" =>
        \A A, B \in Elems(args.clause_ids) :
            (A # B /\ OverriddenBy(B, A) /\ Eligible(A) /\ Eligible(B))
                => ~(A \in Elems(result) /\ B \in Elems(result))

\* C19: resolve returns what it returns with every overridden_by list
\* emptied; when B names A in overridden_by and both are candidates,
\* resolve does not return both if A's overrides list names B.
C19_OnlyOverridesSuppress ==
    op = "resolve" =>
        /\ result = resolve_conflicts(WithoutOverriddenBy, args.clause_ids,
                                      args.context).value
        /\ \A A, B \in Elems(args.clause_ids) :
              (A # B /\ OverriddenBy(B, A) /\ Overrides(A, B))
                  => ~(A \in Elems(result) /\ B \in Elems(result))

\* Q2 names Q1 in overridden_by, Q1's overrides list is empty, both pass
\* their conditions, and both are returned
C19_Witness ==
    /\ op = "resolve"
    /\ args.clause_ids = <<"Q1", "Q2">>
    /\ OverriddenBy("Q2", "Q1")
    /\ clauses["Q1"].overrides = <<>>
    /\ clauses["Q2"].overrides = <<>>
    /\ Eligible("Q1") /\ Eligible("Q2")
    /\ result = <<"Q1", "Q2">>

----------------------------------------------------------------------------
(* SpecTermination: one caller runs one call step by step, a               *)
(* get_related_policies from T1 or a resolve_conflicts over any candidate  *)
(* list, on every ruleset of three clauses of one precedence whose         *)
(* overrides lists hold at most MaxEdges entries: clauses that name        *)
(* themselves, each other and cycles of three are among them.  The caller  *)
(* keeps running: a step that can be taken is taken.                       *)

StepIds == {"T1", "T2", "T3"}
StepOrder == <<"T1", "T2", "T3">>

StepEdgeSets ==
    {E \in SUBSET (StepIds \X StepIds) : Cardinality(E) <= MaxEdges}

\* the ids E says id names, as a list
StepTargets(E, id) ==
    LET Named(t) == <<id, t>> \in E
    IN  SelectSeq(StepOrder, Named)

StepRuleset(E) ==
    [i \in 1..3 |->
        [PolicyClause(StepOrder[i], "title", "rule") EXCEPT
            !.overrides = StepTargets(E, StepOrder[i])]]

StepCalls ==
    {[method |-> "related", clause_id |-> "T1", max_hops |-> max_hops,
      clause_ids |-> <<>>, context |-> EmptyDict] : max_hops \in 0..MaxHops}
    \cup
    {[method |-> "resolve", clause_id |-> "", max_hops |-> 0,
      clause_ids |-> clause_ids, context |-> EmptyDict] :
        clause_ids \in ListsUpTo(StepIds, MaxCand)}

InitTermination ==
    \E E \in StepEdgeSets :
        LET graph == BuildGraph(NewPolicyGraph, StepRuleset(E))
        IN  /\ clauses = graph.clauses
            /\ interaction_graph = graph.interaction_graph
            /\ op = "init"
            /\ args = NoArgs
            /\ result = <<>>
            /\ raised = "none"
            /\ \E call \in StepCalls :
                  workers = [call |-> <<call>>,
                             pc |-> <<"start">>,
                             frame |-> <<NoFrame>>,
                             returned |-> <<Return(<<>>)>>]
            /\ pipeline = NoPipeline

NextTermination ==
    \/ WorkerStart(1)
    \/ WorkerIterate(1)
    \/ WorkerReturn(1)

SpecTermination ==
    InitTermination /\ [][NextTermination]_vars /\ WF_vars(NextTermination)

\* the ids whose relation list the loop has read
Expanded(frame) ==
    LET Indexed(p) == p[1] \in DOMAIN interaction_graph
    IN  SelectSeq(frame.processed, Indexed)

\* the lengths of the index entries read, added up
RECURSIVE EntriesRead(_)
EntriesRead(expanded) ==
    IF expanded = <<>> THEN 0
    ELSE Len(interaction_graph[Head(expanded)[1]]) + EntriesRead(Tail(expanded))

\* C23: the call returns; and while a get_related_policies call runs it has
\* read no clause's relation list twice and has created at most one queue
\* entry more than the entries of the relation lists it has read.
C23_CallsTerminate ==
    /\ <>(workers.pc[1] = "done")
    /\ [](LET frame == workers.frame[1]
          IN  /\ \A i, j \in 1..Len(frame.processed) :
                    frame.processed[i][1] = frame.processed[j][1] => i = j
              /\ frame.queued <= 1 + EntriesRead(Expanded(frame)))

\* a traversal has returned on a ruleset where T1 names itself and lies on
\* a cycle through T2 and T3, after creating three queue entries
C23_Witness ==
    /\ DOMAIN workers.pc = {1}
    /\ workers.pc[1] = "done"
    /\ workers.call[1].method = "related"
    /\ workers.call[1].max_hops = 3
    /\ interaction_graph["T1"] = <<"T1", "T2">>
    /\ interaction_graph["T2"] = <<"T1", "T3">>
    /\ interaction_graph["T3"] = <<"T1">>
    /\ workers.returned[1].value = <<"T2", "T3">>
    /\ workers.frame[1].queued = 3

----------------------------------------------------------------------------
(* create_policy_graph: the ruleset the generator runs on.                 *)

\* the PolicyClause objects create_policy_graph passes to add_clause, in
\* the order of its calls
PolicyGraphClauses ==
    <<
     [PolicyClause("POL-RETURN-001", "Return Window",
         "ALL items: 30-day return window from delivery date. No returns accepted after 30 days for any reason.") EXCEPT
         !.conditions = <<"within_return_window", "receipt_required">>,
         !.interacts_with = <<"POL-RETURN-002", "POL-RETURN-003">>,
         !.modified_by = <<"POL-RETURN-004", "POL-HOLIDAY-001">>,
         !.precedence = 3,
         !.category = "Return Policy"],
     [PolicyClause("POL-RETURN-002", "Restocking Fee",
         "Opened items: 15% restocking fee applies unless item is defective") EXCEPT
         !.conditions = <<"within_return_window">>,
         !.interacts_with = <<"POL-RETURN-001", "POL-RETURN-003">>,
         !.modified_by = <<"POL-RETURN-003">>,
         !.overridden_by = <<"POL-RETURN-004">>,
         !.precedence = 4,
         !.category = "Return Policy"],
     [PolicyClause("POL-RETURN-003", "Unopened Items",
         "Unopened items: Full refund, no restocking fee") EXCEPT
         !.conditions = <<"within_return_window">>,
         !.interacts_with = <<"POL-RETURN-001", "POL-RETURN-002">>,
         !.modifies = <<"POL-RETURN-002">>,
         !.precedence = 3,
         !.category = "Return Policy"],
     [PolicyClause("POL-RETURN-004", "Defective Items",
         "Defective items: Full refund, no restocking fee regardless of opened status") EXCEPT
         !.conditions = <<"within_return_window">>,
         !.modifies = <<"POL-RETURN-001">>,
         !.overrides = <<"POL-RETURN-002">>,
         !.precedence = 1,
         !.category = "Return Policy"],
     [PolicyClause("POL-EXCHANGE-001", "Exchange Window",
         "Exchanges allowed within 30 days for same or higher value item. Customer pays price difference if applicable.") EXCEPT
         !.conditions = <<"within_return_window", "receipt_required">>,
         !.interacts_with = <<"POL-RETURN-001">>,
         !.precedence = 3,
         !.category = "Exchange Policy"],
     [PolicyClause("POL-EXCHANGE-002", "Defective Item Exchange",
         "Defective items exchanged for same item at no cost. If same item unavailable, full refund or credit offered.") EXCEPT
         !.overrides = <<"POL-EXCHANGE-001">>,
         !.precedence = 1,
         !.category = "Exchange Policy"],
     [PolicyClause("POL-SHIP-001", "Shipping Costs",
         "Standard shipping (5-7 days): Free on orders over $50, otherwise $9.99") EXCEPT
         !.precedence = 5,
         !.category = "Shipping Policy"],
     [PolicyClause("POL-SHIP-002", "Package Not Received",
         "Package not received: Replacement sent after carrier investigation (3 business days)") EXCEPT
         !.requires = <<"POL-SHIP-003">>,
         !.precedence = 4,
         !.category = "Shipping Policy"],
     [PolicyClause("POL-SHIP-003", "Investigation Required",
         "Investigation period: 3 business days required before replacement for lost packages") EXCEPT
         !.precedence = 3,
         !.category = "Shipping Policy"],
     [PolicyClause("POL-SHIP-004", "Wrong Item Shipped",
         "Wrong item shipped: Free return label provided, correct item sent immediately. No time limit - this is merchant error.") EXCEPT
         !.precedence = 2,
         !.category = "Shipping Policy"],
     [PolicyClause("POL-SHIP-005", "Damage Claims High Value",
         "Damaged items over $500: Photo required before replacement approved") EXCEPT
         !.conditions = <<"item_over_500">>,
         !.modifies = <<"POL-SHIP-006">>,
         !.precedence = 2,
         !.category = "Shipping Policy"],
     [PolicyClause("POL-SHIP-006", "Damage Claims Standard",
         "Damaged items under $500: Immediate replacement authorized") EXCEPT
         !.modified_by = <<"POL-SHIP-005">>,
         !.precedence = 4,
         !.category = "Shipping Policy"],
     [PolicyClause("POL-WARRANTY-001", "Warranty Period",
         "Manufacturer warranty: 1 year from purchase date. No warranty service after 1 year") EXCEPT
         !.conditions = <<"warranty_period">>,
         !.interacts_with = <<"POL-WARRANTY-002", "POL-WARRANTY-003">>,
         !.precedence = 3,
         !.category = "Warranty Policy"],
     [PolicyClause("POL-WARRANTY-002", "Manufacturing Defects",
         "Defects covered: Manufacturing defects only") EXCEPT
         !.conditions = <<"warranty_period">>,
         !.interacts_with = <<"POL-WARRANTY-001", "POL-WARRANTY-003">>,
         !.overridden_by = <<"POL-WARRANTY-003">>,
         !.precedence = 3,
         !.category = "Warranty Policy"],
     [PolicyClause("POL-WARRANTY-003", "Warranty Exclusions",
         "Not covered: Physical damage, water damage, normal wear") EXCEPT
         !.conditions = <<"warranty_period">>,
         !.interacts_with = <<"POL-WARRANTY-001", "POL-WARRANTY-002">>,
         !.overrides = <<"POL-WARRANTY-002">>,
         !.precedence = 2,
         !.category = "Warranty Policy"],
     [PolicyClause("POL-PRICE-001", "Price Match Window",
         "Authorized retailers only: Price matched within 14 days of purchase. No price match after 14 days") EXCEPT
         !.conditions = <<"within_price_match_window">>,
         !.interacts_with = <<"POL-PRICE-002">>,
         !.modified_by = <<"POL-PRICE-002">>,
         !.precedence = 3,
         !.category = "Price Match Policy"],
     [PolicyClause("POL-PRICE-002", "Price Match Exclusions",
         "Exclusions: Marketplace sellers, clearance items, bundles") EXCEPT
         !.interacts_with = <<"POL-PRICE-001">>,
         !.modifies = <<"POL-PRICE-001">>,
         !.precedence = 2,
         !.category = "Price Match Policy"],
     [PolicyClause("POL-ORDER-001", "Order Modification Window",
         "Changes allowed: Within 2 hours of order placement. After 2 hours: Order cannot be modified") EXCEPT
         !.conditions = <<"order_not_shipped">>,
         !.precedence = 3,
         !.category = "Order Policy"],
     [PolicyClause("POL-HOLIDAY-001", "Holiday Extension",
         "Holiday purchases: Return window extended to 45 days for purchases made November 1 - December 31") EXCEPT
         !.modifies = <<"POL-RETURN-001">>,
         !.precedence = 2,
         !.category = "Special Conditions"],
     [PolicyClause("POL-COMM-001", "Response Time",
         "Response time: Within 24 hours") EXCEPT
         !.precedence = 5,
         !.category = "Customer Service Standards"],
     [PolicyClause("POL-COMM-002", "Escalation",
         "Escalation: Available for orders over $1000") EXCEPT
         !.conditions = <<"item_over_500">>,
         !.precedence = 4,
         !.category = "Customer Service Standards"],
     [PolicyClause("POL-INFO-001", "Product Information Requests",
         "Product availability, specifications, and pricing information provided upon request. Stock status subject to real-time availability.") EXCEPT
         !.precedence = 5,
         !.category = "Product Information"]
    >>

\* PolicyGraphClauses with the relation between POL-RETURN-004 and
\* POL-RETURN-002 written on the wrong clause: POL-RETURN-002 overrides
\* POL-RETURN-004
create_policy_graph_UpwardOverride ==
    BuildGraph(NewPolicyGraph,
               [PolicyGraphClauses EXCEPT ![2].overrides = <<"POL-RETURN-004">>])

\* graph = PolicyGraph(); graph.add_clause(...) for each clause; return graph
create_policy_graph == BuildGraph(NewPolicyGraph, PolicyGraphClauses)

----------------------------------------------------------------------------
(* SpecPolicy: resolve_conflicts on the ruleset of create_policy_graph,    *)
(* for candidate lists without repeated ids.                               *)

\* the lists of up to MaxCand different ids of S
DistinctListsUpTo(S, n) ==
    {s \in ListsUpTo(S, n) : \A i, j \in 1..Len(s) : s[i] = s[j] => i = j}

\* the clauses of the ruleset that carry a condition or an overrides list:
\* the candidates resolve_conflicts can skip, and the ones that can make it
\* skip another
CandidatePool(graph) ==
    {id \in DOMAIN graph.clauses :
        \/ graph.clauses[id].conditions # <<>>
        \/ graph.clauses[id].overrides # <<>>}

\* contexts on both sides of the thresholds the ruleset's conditions test
PolicyContexts ==
    {("days_since_purchase" :> d) @@ ("has_receipt" :> r) @@ o :
        d \in {10, 31}, r \in BOOLEAN,
        o \in {("months_since_purchase" :> Months(12))
                  @@ ("order_status" :> "delivered") @@ ("item_value" :> 500),
               ("months_since_purchase" :> Months(13))
                  @@ ("order_status" :> "processing") @@ ("item_value" :> 501)}}

InitPolicy ==
    LET graph == create_policy_graph
    IN  /\ clauses = graph.clauses
        /\ interaction_graph = graph.interaction_graph
        /\ op = "init"
        /\ \E clause_ids \in DistinctListsUpTo(CandidatePool(graph), MaxCand),
              context \in PolicyContexts :
               args = [NoArgs EXCEPT !.clause_ids = clause_ids,
                                     !.context = context]
        /\ result = <<>>
        /\ raised = "none"
        /\ workers = NoWorkers
        /\ pipeline = NoPipeline

NextPolicy == Resolve(args.clause_ids, args.context)

SpecPolicy == InitPolicy /\ [][NextPolicy]_vars

\* the candidates whose conditions hold and that no other candidate whose
\* conditions hold names in its overrides list
Unopposed ==
    {id \in Elems(args.clause_ids) :
        /\ Eligible(id)
        /\ ~\E other \in Elems(args.clause_ids) :
               other # id /\ Eligible(other) /\ Overrides(other, id)}

\* C30: on the ruleset of create_policy_graph, for a candidate list without
\* repeated ids, the pruning step of resolve_conflicts removes nothing, and
\* the call returns, each once and in non-decreasing order of precedence,
\* exactly the candidates whose conditions hold and that no other candidate
\* whose conditions hold names in its overrides list.
C30_PolicyGraphResolvesWithoutPruning ==
    op = "resolve" =>
        /\ raised = "none"
        /\ ResolveRemovals(Self, args.clause_ids, args.context) = {}
        /\ Elems(result) = Unopposed
        /\ Len(result) = Cardinality(Unopposed)
        /\ \A i, j \in 1..Len(result) :
               i < j => Prec(result[i]) <= Prec(result[j])

\* POL-RETURN-002 stands before POL-RETURN-004, which overrides it, and all
\* conditions hold: POL-RETURN-004 is sorted to the front and POL-RETURN-002
\* is never appended
C30_Witness ==
    /\ op = "resolve"
    /\ args.clause_ids = <<"POL-RETURN-002", "POL-RETURN-004", "POL-RETURN-001">>
    /\ args.context["days_since_purchase"] = 10
    /\ args.context["has_receipt"]
    /\ result = <<"POL-RETURN-004", "POL-RETURN-001">>

----------------------------------------------------------------------------
(* The ticket pipeline: one iteration of the loop of main.                 *)

\* a context requirement that is a tuple (low, high)
Range(lo, hi) == [tuple |-> TRUE, lo |-> lo, hi |-> hi]

\* a context requirement that is a plain value
Exactly(value) == [tuple |-> FALSE, value |-> value]

\* the templates of create_scenario_templates, by query type: the fields
\* select_and_customize_scenario and resolve_conflicts read
scenario_templates ==
    ("return_request" :> <<
        [scenario_id |-> "RETURN-001A",
         primary_policy |-> "POL-RETURN-003",
         all_relevant_policies |-> <<"POL-RETURN-001", "POL-RETURN-003">>,
         context_requirements |->
               ("days_since_purchase" :> Range(7, 25))
               @@ ("has_receipt" :> Exactly(TRUE))
               @@ ("item_condition" :> Exactly("unopened"))],
        [scenario_id |-> "RETURN-001B",
         primary_policy |-> "POL-RETURN-002",
         all_relevant_policies |-> <<"POL-RETURN-001", "POL-RETURN-002">>,
         context_requirements |->
               ("days_since_purchase" :> Range(10, 28))
               @@ ("has_receipt" :> Exactly(TRUE))
               @@ ("item_condition" :> Exactly("opened"))],
        [scenario_id |-> "RETURN-002A",
         primary_policy |-> "POL-RETURN-001",
         all_relevant_policies |-> <<"POL-RETURN-001">>,
         context_requirements |->
               ("days_since_purchase" :> Range(32, 40))
               @@ ("has_receipt" :> Exactly(TRUE))
               @@ ("item_condition" :> Exactly("unopened"))],
        [scenario_id |-> "RETURN-002B",
         primary_policy |-> "POL-RETURN-001",
         all_relevant_policies |-> <<"POL-RETURN-001">>,
         context_requirements |->
               ("days_since_purchase" :> Range(60, 90))
               @@ ("has_receipt" :> Exactly(TRUE))
               @@ ("item_condition" :> Exactly("unopened"))],
        [scenario_id |-> "RETURN-003",
         primary_policy |-> "POL-RETURN-004",
         all_relevant_policies |-> <<"POL-RETURN-004", "POL-WARRANTY-002">>,
         context_requirements |->
               ("days_since_purchase" :> Range(1, 20))
               @@ ("has_receipt" :> Exactly(TRUE))
               @@ ("item_condition" :> Exactly("defective"))],
        [scenario_id |-> "RETURN-004",
         primary_policy |-> "POL-RETURN-001",
         all_relevant_policies |-> <<"POL-RETURN-001">>,
         context_requirements |->
               ("days_since_purchase" :> Range(10, 20))
               @@ ("has_receipt" :> Exactly(FALSE))
               @@ ("item_condition" :> Exactly("unopened"))],
        [scenario_id |-> "RETURN-005",
         primary_policy |-> "POL-HOLIDAY-001",
         all_relevant_policies |-> <<"POL-HOLIDAY-001", "POL-RETURN-001", "POL-RETURN-003">>,
         context_requirements |->
               ("days_since_purchase" :> Range(35, 44))
               @@ ("purchase_month" :> Range(11, 12))
               @@ ("has_receipt" :> Exactly(TRUE))
               @@ ("item_condition" :> Exactly("unopened"))]>>)
    @@
    ("exchange_request" :> <<
        [scenario_id |-> "EXCHANGE-001",
         primary_policy |-> "POL-EXCHANGE-001",
         all_relevant_policies |-> <<"POL-EXCHANGE-001", "POL-RETURN-001">>,
         context_requirements |->
               ("days_since_purchase" :> Range(5, 25))
               @@ ("has_receipt" :> Exactly(TRUE))
               @@ ("exchange_reason" :> Exactly("wrong_size"))],
        [scenario_id |-> "EXCHANGE-002",
         primary_policy |-> "POL-EXCHANGE-002",
         all_relevant_policies |-> <<"POL-EXCHANGE-002", "POL-RETURN-004">>,
         context_requirements |->
               ("days_since_purchase" :> Range(3, 15))
               @@ ("has_receipt" :> Exactly(TRUE))
               @@ ("item_condition" :> Exactly("defective"))
               @@ ("exchange_reason" :> Exactly("defective"))],
        [scenario_id |-> "EXCHANGE-003",
         primary_policy |-> "POL-EXCHANGE-001",
         all_relevant_policies |-> <<"POL-EXCHANGE-001", "POL-RETURN-001">>,
         context_requirements |->
               ("days_since_purchase" :> Range(7, 20))
               @@ ("has_receipt" :> Exactly(TRUE))
               @@ ("exchange_reason" :> Exactly("upgrade"))]>>)
    @@
    ("shipping_issue" :> <<
        [scenario_id |-> "SHIP-001",
         primary_policy |-> "POL-SHIP-002",
         all_relevant_policies |-> <<"POL-SHIP-002", "POL-SHIP-003">>,
         context_requirements |->
               ("days_since_delivery" :> Range(1, 5))
               @@ ("tracking_status" :> Exactly("delivered"))
               @@ ("item_value" :> Range(50, 800))],
        [scenario_id |-> "SHIP-002",
         primary_policy |-> "POL-SHIP-004",
         all_relevant_policies |-> <<"POL-SHIP-004">>,
         context_requirements |->
               ("days_since_delivery" :> Range(1, 200))
               @@ ("item_value" :> Range(20, 800))],
        [scenario_id |-> "SHIP-003",
         primary_policy |-> "POL-SHIP-005",
         all_relevant_policies |-> <<"POL-SHIP-005", "POL-RETURN-004", "POL-COMM-002">>,
         context_requirements |->
               ("days_since_delivery" :> Range(1, 3))
               @@ ("item_value" :> Range(501, 2000))],
        [scenario_id |-> "SHIP-004",
         primary_policy |-> "POL-SHIP-006",
         all_relevant_policies |-> <<"POL-SHIP-006", "POL-RETURN-004">>,
         context_requirements |->
               ("days_since_delivery" :> Range(1, 3))
               @@ ("item_value" :> Range(10, 500))],
        [scenario_id |-> "SHIP-005",
         primary_policy |-> "POL-SHIP-001",
         all_relevant_policies |-> <<"POL-SHIP-001", "POL-COMM-001">>,
         context_requirements |->
               ("days_since_order" :> Range(10, 15))
               @@ ("order_status" :> Exactly("shipped"))
               @@ ("promised_delivery_days" :> Exactly(7))]>>)
    @@
    ("warranty_claim" :> <<
        [scenario_id |-> "WARRANTY-001",
         primary_policy |-> "POL-WARRANTY-002",
         all_relevant_policies |-> <<"POL-WARRANTY-001", "POL-WARRANTY-002">>,
         context_requirements |->
               ("months_since_purchase" :> Range(3, 10))
               @@ ("damage_type" :> Exactly("manufacturing"))],
        [scenario_id |-> "WARRANTY-002",
         primary_policy |-> "POL-WARRANTY-003",
         all_relevant_policies |-> <<"POL-WARRANTY-003", "POL-WARRANTY-001">>,
         context_requirements |->
               ("months_since_purchase" :> Range(2, 8))
               @@ ("damage_type" :> Exactly("water"))],
        [scenario_id |-> "WARRANTY-003",
         primary_policy |-> "POL-WARRANTY-001",
         all_relevant_policies |-> <<"POL-WARRANTY-001">>,
         context_requirements |->
               ("months_since_purchase" :> Range(13, 14))
               @@ ("damage_type" :> Exactly("manufacturing"))]>>)
    @@
    ("pricing_dispute" :> <<
        [scenario_id |-> "PRICE-001",
         primary_policy |-> "POL-PRICE-001",
         all_relevant_policies |-> <<"POL-PRICE-001">>,
         context_requirements |->
               ("days_since_purchase" :> Range(3, 12))
               @@ ("competitor_type" :> Exactly("authorized"))
               @@ ("competitor_name" :> Exactly("Best Buy"))],
        [scenario_id |-> "PRICE-002",
         primary_policy |-> "POL-PRICE-002",
         all_relevant_policies |-> <<"POL-PRICE-002", "POL-PRICE-001">>,
         context_requirements |->
               ("days_since_purchase" :> Range(2, 10))
               @@ ("competitor_type" :> Exactly("marketplace"))
               @@ ("competitor_name" :> Exactly("Amazon third-party seller"))],
        [scenario_id |-> "PRICE-003",
         primary_policy |-> "POL-PRICE-002",
         all_relevant_policies |-> <<"POL-PRICE-002", "POL-PRICE-001">>,
         context_requirements |->
               ("days_since_purchase" :> Range(5, 13))
               @@ ("competitor_type" :> Exactly("marketplace"))
               @@ ("competitor_name" :> Exactly("eBay seller"))],
        [scenario_id |-> "PRICE-004",
         primary_policy |-> "POL-PRICE-001",
         all_relevant_policies |-> <<"POL-PRICE-001">>,
         context_requirements |->
               ("days_since_purchase" :> Range(16, 25))
               @@ ("competitor_type" :> Exactly("authorized"))
               @@ ("competitor_name" :> Exactly("Target"))]>>)
    @@
    ("order_status" :> <<
        [scenario_id |-> "ORDER-001",
         primary_policy |-> "POL-ORDER-001",
         all_relevant_policies |-> <<"POL-ORDER-001", "POL-RETURN-001">>,
         context_requirements |->
               ("days_since_order" :> Range(2, 4))
               @@ ("order_status" :> Exactly("shipped"))],
        [scenario_id |-> "ORDER-002",
         primary_policy |-> "POL-ORDER-001",
         all_relevant_policies |-> <<"POL-ORDER-001">>,
         context_requirements |->
               ("hours_since_order" :> Range(3, 8))
               @@ ("order_status" :> Exactly("processing"))],
        [scenario_id |-> "ORDER-003",
         primary_policy |-> "POL-COMM-001",
         all_relevant_policies |-> <<"POL-COMM-001", "POL-SHIP-001">>,
         context_requirements |->
               ("days_since_order" :> Range(3, 5))
               @@ ("order_status" :> Exactly("processing"))]>>)
    @@
    ("general_inquiry" :> <<
        [scenario_id |-> "GENERAL-001",
         primary_policy |-> "POL-INFO-001",
         all_relevant_policies |-> <<"POL-INFO-001", "POL-COMM-001">>,
         context_requirements |->
               EmptyDict],
        [scenario_id |-> "GENERAL-002",
         primary_policy |-> "POL-INFO-001",
         all_relevant_policies |-> <<"POL-INFO-001", "POL-COMM-001">>,
         context_requirements |->
               EmptyDict],
        [scenario_id |-> "GENERAL-003",
         primary_policy |-> "POL-SHIP-001",
         all_relevant_policies |-> <<"POL-SHIP-001", "POL-COMM-001">>,
         context_requirements |->
               EmptyDict]>>)

\* order = None
NoOrder ==
    [order_id |-> "None", customer_id |-> "None", order_status |-> "None",
     total_amount |-> 0, order_date |-> <<0, 0, 0>>, items |-> <<>>]

\* orders as generate_single_order writes them: order_date is year, month,
\* day; one is still processing, one was bought in December for over 500
orders ==
    <<[order_id |-> "ORD-1", customer_id |-> "CUST-1",
       order_status |-> "delivered", total_amount |-> 120,
       order_date |-> <<2025, 6, 14>>,
       items |-> <<[product_id |-> "PROD-1", price_paid |-> 60, quantity |-> 2]>>],
      [order_id |-> "ORD-2", customer_id |-> "CUST-1",
       order_status |-> "shipped", total_amount |-> 650,
       order_date |-> <<2024, 12, 2>>,
       items |-> <<[product_id |-> "PROD-2", price_paid |-> 650, quantity |-> 1]>>],
      [order_id |-> "ORD-3", customer_id |-> "CUST-2",
       order_status |-> "processing", total_amount |-> 40,
       order_date |-> <<2025, 7, 1>>,
       items |-> <<[product_id |-> "PROD-1", price_paid |-> 40, quantity |-> 1]>>]>>

\* eligible_orders of main: the delivered, shipped or partially returned
\* orders, all orders when there is none
eligible_orders ==
    LET Usable(o) ==
            o.order_status \in {"delivered", "shipped", "partially_returned"}
    IN  IF SelectSeq(orders, Usable) = <<>> THEN orders
        ELSE SelectSeq(orders, Usable)

\* order_products of main: the products of the items of the order
order_products(order) ==
    [i \in 1..Len(order.items) |-> order.items[i].product_id]

\* max over the items of price_paid * quantity, starting from 0
RECURSIVE MaxItemValue(_)
MaxItemValue(items) ==
    IF items = <<>> THEN 0
    ELSE LET item_value == Head(items).price_paid * Head(items).quantity
             rest == MaxItemValue(Tail(items))
         IN  IF item_value > rest THEN item_value ELSE rest

\* build_order_context(order, customer, products)
build_order_context(order, customer, products) ==
    LET context == ("has_receipt" :> TRUE) @@ ("customer_tier" :> "standard")
        updated ==
            ("days_since_purchase" :> 10)
            @@ ("months_since_purchase" :> DefaultMonths)
            @@ ("order_status" :> order.order_status)
            @@ ("total_order_value" :> order.total_amount)
            @@ context
        valued ==
            IF order.total_amount > 500
            THEN ("item_over_500" :> TRUE) @@ updated
            ELSE updated
        purchase_month == order.order_date[2]
        dated ==
            IF purchase_month \in {11, 12}
            THEN ("purchase_month" :> purchase_month) @@ valued
            ELSE valued
    IN  IF order = NoOrder THEN context
        ELSE IF order.items # <<>> /\ products # <<>>
        THEN ("item_value" :> MaxItemValue(order.items)) @@ dated
        ELSE dated

\* the keys of the requirements that hold a tuple
RangeKeys(context_requirements) ==
    {key \in DOMAIN context_requirements : context_requirements[key].tuple}

\* the outcomes of the random.randint calls drawn: each range gives its low
\* or its high end
RandomPicks(context_requirements) ==
    LET keys == RangeKeys(context_requirements)
        Ends(key) == {context_requirements[key].lo, context_requirements[key].hi}
    IN  {pick \in [keys -> UNION {Ends(key) : key \in keys}] :
            \A key \in keys : pick[key] \in Ends(key)}

\* the value stored for a number n under key
Stored(key, n) == IF key = "months_since_purchase" THEN Months(n) ELSE n

\* for key, value in template.context_requirements.items(): context[key] = ...
ApplyRequirements(context, context_requirements, pick) ==
    [key \in DOMAIN context \cup DOMAIN context_requirements |->
        IF key \notin DOMAIN context_requirements THEN context[key]
        ELSE IF context_requirements[key].tuple THEN Stored(key, pick[key])
        ELSE context_requirements[key].value]

\* the block under `if template.context_requirements:`: the requirements are
\* written into the context, months_since_purchase is recalculated from
\* days_since_purchase, purchase_month is filled in from the order
CustomizeContext(context, context_requirements, pick, order) ==
    LET required == ApplyRequirements(context, context_requirements, pick)
        recalculated ==
            IF "days_since_purchase" \in DOMAIN required
            THEN ("months_since_purchase" :>
                      DaysToMonths(required["days_since_purchase"])) @@ required
            ELSE required
    IN  IF DOMAIN context_requirements = {} THEN context
        ELSE IF order # NoOrder /\ "purchase_month" \notin DOMAIN recalculated
        THEN ("purchase_month" :> order.order_date[2]) @@ recalculated
        ELSE recalculated

\* templates = scenario_templates.get(query_type, []), return_request's when
\* that is empty
TemplatesFor(query_type) ==
    IF query_type \in DOMAIN scenario_templates
       /\ scenario_templates[query_type] # <<>>
    THEN scenario_templates[query_type]
    ELSE scenario_templates["return_request"]

\* no scenario yet
NoScenario == [scenario_id |-> "None"]

\* no ticket yet
NoTicket == ("ticket_id" :> "None")

\* select_and_customize_scenario(policy_graph, scenario_templates,
\* query_type, order, customer, products), as main calls it
SelectAndCustomizeScenario ==
    /\ pipeline.pc = "select"
    /\ \E i \in 1..Len(TemplatesFor(pipeline.query_type)) :
         LET template == TemplatesFor(pipeline.query_type)[i]
             order == pipeline.order
         IN  \E pick \in RandomPicks(template.context_requirements) :
               LET context ==
                       CustomizeContext(
                           build_order_context(order, order.customer_id,
                                               order_products(order)),
                           template.context_requirements, pick, order)
                   all_relevant_policies ==
                       IF template.all_relevant_policies # <<>>
                       THEN template.all_relevant_policies
                       ELSE <<template.primary_policy>>
                   r == resolve_conflicts(Self, all_relevant_policies, context)
               IN  /\ op' = "resolve"
                   /\ args' = [NoArgs EXCEPT
                                  !.clause_ids = all_relevant_policies,
                                  !.context = context]
                   /\ result' = r.value
                   /\ raised' = r.raised
                   /\ pipeline' = [pipeline EXCEPT
                        !.pc = "email",
                        !.scenario =
                            [scenario_id |-> template.scenario_id,
                             primary_policy |-> template.primary_policy,
                             all_relevant_policies |-> all_relevant_policies,
                             applicable_policies |-> r.value,
                             order |-> order,
                             context |-> context,
                             template_context_requirements |->
                                 template.context_requirements]]
    /\ UNCHANGED <<clauses, interaction_graph, workers>>

\* days=7 of the fallback of generate_realistic_email_timestamp
FallbackDays == 7

\* (email_dt - order_dt).days for the timestamps
\* generate_realistic_email_timestamp can return: the fallback, or a date
\* the language model names, here one on each side of the return window and
\* one after the warranty period
TimestampDays == {FallbackDays, 33, 400}

\* main, after the email: scenario["context"] gets the days and months
\* between the order and the email timestamp, when there is an order
TimestampEmail ==
    /\ pipeline.pc = "email"
    /\ IF pipeline.scenario.order # NoOrder
       THEN \E actual_days_since_purchase \in TimestampDays :
              pipeline' = [pipeline EXCEPT
                  !.pc = "resolution",
                  !.scenario.context =
                      ("days_since_purchase" :> actual_days_since_purchase)
                      @@ ("months_since_purchase" :>
                              DaysToMonths(actual_days_since_purchase))
                      @@ pipeline.scenario.context]
       ELSE pipeline' = [pipeline EXCEPT !.pc = "resolution"]
    /\ UNCHANGED <<clauses, interaction_graph, op, args, result, raised,
                   workers>>

\* generate_customer_email_v3 or generate_resolution_v3 returned None: main
\* skips the ticket
SkipTicket ==
    /\ pipeline.pc \in {"email", "resolution"}
    /\ pipeline' = [pipeline EXCEPT !.pc = "skipped"]
    /\ UNCHANGED <<clauses, interaction_graph, op, args, result, raised,
                   workers>>

\* create_complete_ticket_v3(config, scenario, email, resolution, dimensions)
create_complete_ticket_v3(config, scenario) ==
    LET ticket ==
            ("ticket_id" :> "TK")
            @@ ("order_id" :> IF scenario.order # NoOrder
                              THEN scenario.order.order_id ELSE "N/A")
    IN  IF config.include_debug_info
        THEN ("_policy_analysis" :>
                 [all_relevant_policies |-> scenario.all_relevant_policies,
                  applicable_policies |-> scenario.applicable_policies,
                  context_used |-> scenario.context]) @@ ticket
        ELSE ticket

\* main appends the ticket create_complete_ticket_v3 returns
CreateCompleteTicket ==
    /\ pipeline.pc = "resolution"
    /\ pipeline' = [pipeline EXCEPT
           !.pc = "done",
           !.ticket = create_complete_ticket_v3(pipeline.config,
                                                pipeline.scenario)]
    /\ UNCHANGED <<clauses, interaction_graph, op, args, result, raised,
                   workers>>

----------------------------------------------------------------------------
(* SpecTickets: main generates one ticket on the ruleset of                *)
(* create_policy_graph, for every query type, order and configuration.     *)

QueryTypes ==
    {"return_request", "exchange_request", "shipping_issue", "order_status",
     "pricing_dispute", "general_inquiry", "warranty_claim"}

InitTickets ==
    LET graph == create_policy_graph
    IN  /\ clauses = graph.clauses
        /\ interaction_graph = graph.interaction_graph
        /\ op = "init"
        /\ args = NoArgs
        /\ result = <<>>
        /\ raised = "none"
        /\ workers = NoWorkers
        /\ \E query_type \in QueryTypes, include_debug_info \in BOOLEAN :
             \E order \in IF query_type = "general_inquiry"
                          THEN Elems(eligible_orders) \cup {NoOrder}
                          ELSE Elems(eligible_orders) :
               pipeline = [pc |-> "select",
                           query_type |-> query_type,
                           order |-> order,
                           config |-> [include_debug_info |-> include_debug_info],
                           scenario |-> NoScenario,
                           ticket |-> NoTicket]

NextTickets ==
    \/ SelectAndCustomizeScenario
    \/ TimestampEmail
    \/ SkipTicket
    \/ CreateCompleteTicket

SpecTickets == InitTickets /\ [][NextTickets]_vars

\* the context holds key with the value, or a value inside the range, that
\* context_requirements asks for
MeetsRequirement(context, context_requirements, key) ==
    /\ key \in DOMAIN context
    /\ IF context_requirements[key].tuple
       THEN /\ Stored(key, context_requirements[key].lo) <= context[key]
            /\ context[key] <= Stored(key, context_requirements[key].hi)
       ELSE context[key] = context_requirements[key].value

\* C29: the context select_and_customize_scenario hands to resolve_conflicts
\* meets every requirement of the chosen template.
C29_ResolveContextMeetsRequirements ==
    pipeline.pc = "email" =>
        \A key \in DOMAIN pipeline.scenario.template_context_requirements :
            MeetsRequirement(args.context,
                             pipeline.scenario.template_context_requirements,
                             key)

\* C28: on a generated ticket, the recorded applicable_policies are what
\* resolve_conflicts returns for the recorded all_relevant_policies and the
\* recorded context_used.
C28_TicketPoliciesFollowContextUsed ==
    pipeline.pc = "done" /\ "_policy_analysis" \in DOMAIN pipeline.ticket =>
        LET analysis == pipeline.ticket["_policy_analysis"]
        IN  analysis.applicable_policies =
                resolve_conflicts(Self, analysis.all_relevant_policies,
                                  analysis.context_used).value

====
